---- MODULE Spec2Model ----
(***************************************************************************)
(* Paged fetching in the Atlassian REST client:                            *)
(*   BitbucketCloudBase._get_paged   (link based, generator)                *)
(*   Jira._get_paged                 (offset based, generator)              *)
(*   Jira.enhanced_jql_get_list_of_tickets (token based, returns a list)    *)
(*   Jira.enhanced_jql               (one token based request)              *)
(* One call of one of these methods is made against a transport that logs   *)
(* every request and answers with a page or raises.                         *)
(* Modelled apart, each with a specification of its own:                    *)
(*   BitbucketCloudBase.raise_for_status          (SpecRfs)                 *)
(*   Jira.jql, Jira.jql_get_list_of_tickets       (SpecJql)                 *)
(*   two generators of _get_paged taken in turns  (SpecPair)                *)
(*   Jira.issue_exists, two overlapping calls     (SpecExists)              *)
(*   Jira.get_issue_tree_recursive                (SpecTree)                *)
(*   Jira.bulk_update_issue_field                 (SpecBulk)                *)
(***************************************************************************)
EXTENDS Integers, Sequences, FiniteSets, TLC

VARIABLES
    style,              \* which method the caller invokes
    cloud,              \* self.cloud of the Jira client
    paging_workaround,  \* argument of BitbucketCloudBase._get_paged
    limit,              \* argument limit of the token based methods
    expand,             \* argument expand of the token based methods
    pc,                 \* position of the call / of the generator
    url,                \* local url
    paramsRef,          \* what the local params refers to: "None", "caller", "own"
    callerParams,       \* content of the mapping object passed in by the caller
    ownParams,          \* content of the mapping object created by the method
    absolute,           \* local absolute
    trailing,           \* local trailing: "None", "True", "False"
    idx,                \* index in response["values"] of the value yielded last
    next_page_token,    \* local next_page_token of enhanced_jql_get_list_of_tickets
    results,            \* local results of enhanced_jql_get_list_of_tickets
    requests,           \* log of the transport: every request issued, in order
    responses,          \* the pages the transport returned, in order
    yielded,            \* the items handed to the consumer of the generator
    demanded,           \* number of items the consumer has asked for (next() calls)
    raised,             \* the error that left the call, "none" if none
    args,               \* the arguments url, params, absolute, trailing as the caller passed them
    thrown,             \* the error the transport's get() raised, "none" if none
    start,              \* argument and local start of jql, jql_get_list_of_tickets
    validate_query,     \* argument validate_query of jql, jql_get_list_of_tickets
    status_code,        \* response.status_code of the response given to raise_for_status
    body,               \* the body of that response
    rfs_pc,             \* raise_for_status: "idle", "returned" or "raised"
    rfs_error,          \* the exception that left raise_for_status
    rfs_log,            \* what raise_for_status gave to log.error, in order
    json_calls,         \* number of calls of response.json()
    transport_calls,    \* number of calls of response.raise_for_status()
    pair_gen,           \* two generators of BitbucketCloudBase._get_paged: the locals of each
    pair_dicts,         \* content of the mapping objects the caller passes to the two calls
    pair_shared,        \* whether the caller passes the same mapping object to both calls
    pair_server,        \* the pages the server holds
    pair_args,          \* the arguments of the two calls as the caller passed them
    advanced_mode,      \* self.advanced_mode of the Jira client
    ie_mode0,           \* advanced_mode before any call of issue_exists
    ie_pc,              \* issue_exists: position of each call
    ie_original,        \* issue_exists: local original_value of each call
    ie_exit,            \* issue_exists: how each call leaves the try block
    gt_graph,           \* the issues of the server: issuelinks and subtasks of each
    gt_depth0,          \* argument depth of the outermost get_issue_tree_recursive
    gt_pc,              \* get_issue_tree_recursive: "idle", "running", "returned", "raised"
    gt_stack,           \* the nested calls of get_issue_tree_recursive, outermost first
    gt_tree,            \* the list tree all nested calls share
    gt_error,           \* the exception that left the outermost call
    gt_calls,           \* the issue keys given to get_issue, in order
    bu_keys,            \* argument key_list of bulk_update_issue_field
    bu_pc,              \* bulk_update_issue_field: "idle", "running", "returned", "raised"
    bu_i,               \* number of keys the for loop has taken
    bu_puts,            \* the urls of the PUT requests issued, in order
    bu_applied,         \* the issue keys whose update the server has applied, in order
    bu_log,             \* what bulk_update_issue_field gave to log.error, in order
    bu_result           \* the value returned

\* the state of the paged fetches
pagedVars == <<style, cloud, paging_workaround, limit, expand, pc, url, paramsRef,
               callerParams, ownParams, absolute, trailing, idx, next_page_token,
               results, requests, responses, yielded, demanded, raised, args, thrown>>

\* the state of jql and jql_get_list_of_tickets beyond that of the paged fetches
jqlVars == <<start, validate_query>>

\* the state of BitbucketCloudBase.raise_for_status
rfsVars == <<status_code, body, rfs_pc, rfs_error, rfs_log, json_calls, transport_calls>>

\* the state of two generators of BitbucketCloudBase._get_paged consumed in turns
pairVars == <<pair_gen, pair_dicts, pair_shared, pair_server, pair_args>>

\* the state of the operations other than the paged fetches, the searches and raise_for_status
\* the state of the calls of Jira.issue_exists on one client
existsVars == <<advanced_mode, ie_mode0, ie_pc, ie_original, ie_exit>>

\* the state of a call of Jira.get_issue_tree_recursive
treeVars == <<gt_graph, gt_depth0, gt_pc, gt_stack, gt_tree, gt_error, gt_calls>>

\* the state of a call of Jira.bulk_update_issue_field
bulkVars == <<bu_keys, bu_pc, bu_i, bu_puts, bu_applied, bu_log, bu_result>>

auxVars == <<pairVars, existsVars, treeVars, bulkVars>>

vars == <<pagedVars, jqlVars, rfsVars, auxVars>>

----------------------------------------------------------------------------
(* Bounds *)
MaxPages == 3       \* the server answers at most MaxPages requests of a fetch
MaxItems == 2       \* a page holds at most MaxItems items
MaxStops == 1       \* next() calls the consumer makes on an ended generator
MaxTotal == 3       \* the server's search reports at most MaxTotal issues in total

Items == {"a", "b"}
URLs == {"U1", "U2"}
Tokens == {"T1", "T2"}
Null == "null"      \* Python None / JSON null
NoLimit == -1       \* limit=None
InitialUrl == "U0"  \* the url the caller passes

NotJson == [t |-> "notjson"]      \* a body that response.json() cannot decode
NoError == [kind |-> "none"]       \* no exception

TransportErrors == {"HTTPError(normalized)", "HTTPError(generic)", "ConnectionError"}

----------------------------------------------------------------------------
(* Python dict as a function from its keys *)
EmptyDict == <<>>

Get(d, k, default) == IF k \in DOMAIN d THEN d[k] ELSE default

Put(d, k, v) == [x \in (DOMAIN d) \cup {k} |-> IF x = k THEN v ELSE d[x]]

RECURSIVE SeqsUpTo(_, _)
SeqsUpTo(S, n) ==
    IF n = 0 THEN {<<>>}
    ELSE LET shorter == SeqsUpTo(S, n - 1)
         IN shorter \cup {Append(s, x) : s \in {t \in shorter : Len(t) = n - 1}, x \in S}

PageValues == SeqsUpTo(Items, MaxItems)

RECURSIVE Concat(_, _)
\* concatenation of the item arrays (key k) of a sequence of pages
Concat(pages, k) ==
    IF pages = <<>> THEN <<>>
    ELSE Concat(SubSeq(pages, 1, Len(pages) - 1), k) \o Get(pages[Len(pages)], k, <<>>)

----------------------------------------------------------------------------
(* The server: the page envelopes it may answer with *)

\* link based envelope {values, next}; either key may be missing
LinkPages ==
    {("values" :> v @@ "next" :> n) : v \in PageValues, n \in URLs \cup {Null}}
    \cup {("values" :> v) : v \in PageValues}
    \cup {("next" :> n) : n \in URLs \cup {Null}}

\* offset based envelope {values, isLast, nextPage}
OffsetPages ==
    {("values" :> v @@ "isLast" :> l @@ "nextPage" :> n) :
        v \in PageValues, l \in BOOLEAN, n \in URLs \cup {Null}}
    \cup {("values" :> v @@ "nextPage" :> n) : v \in PageValues, n \in URLs}
    \cup {("isLast" :> l @@ "nextPage" :> n) : l \in BOOLEAN, n \in URLs \cup {Null}}
    \cup {("values" :> v) : v \in PageValues}

\* token based envelope {issues, nextPageToken}, or an empty body
TokenPages ==
    {("issues" :> v @@ "nextPageToken" :> t) : v \in PageValues, t \in Tokens \cup {Null, ""}}
    \cup {("issues" :> v) : v \in PageValues}
    \cup {EmptyDict}

\* envelope {issues, total} of the search resource of Jira Server, or an empty body
SearchPages ==
    {("issues" :> v @@ "total" :> n) : v \in PageValues, n \in 0..MaxTotal}
    \cup {EmptyDict}

\* Python truthiness of a token value
Falsy(t) == t \in {Null, ""}

PagesOf(st) ==
    CASE st = "link" -> LinkPages
      [] st = "offset" -> OffsetPages
      [] st \in {"jql", "jql_list"} /\ ~cloud -> SearchPages
      [] OTHER -> TokenPages

\* results are finite: the MaxPages-th answer of the server is a last page
LastPages(st) ==
    CASE st \in {"link", "offset"} ->
            {p \in PagesOf(st) : Len(Get(p, "values", <<>>)) = 0}
      [] st \in {"jql", "jql_list"} /\ ~cloud ->
            {p \in PagesOf(st) : Get(p, "total", 0) <= Len(Get(p, "issues", <<>>)) + start}
      [] OTHER ->
            {p \in PagesOf(st) : Falsy(Get(p, "nextPageToken", Null))}

\* what the transport's get() may do on the k-th request: return a page or raise
Outcomes(st, k) ==
    [kind : {"page"}, page : IF k < MaxPages THEN PagesOf(st) ELSE LastPages(st)]
    \cup [kind : {"error"}, error : TransportErrors]

----------------------------------------------------------------------------
(* State shared by the methods *)

\* the mapping the local params refers to
params == IF paramsRef = "caller" THEN callerParams ELSE ownParams

\* the local response: the page received last
response == responses[Len(responses)]

\* the item array of the page received last
values == Get(response, "values", <<>>)

\* super().get(url, trailing=..., params=..., absolute=...) as seen by the transport
Request(u, p, a, t) == [url |-> u, params |-> p, absolute |-> a, trailing |-> t]

TypeOK ==
    /\ style \in {"link", "offset", "token", "enhanced"}
    /\ cloud \in BOOLEAN
    /\ paging_workaround \in BOOLEAN
    /\ pc \in {"idle", "created", "suspended", "running", "done", "raised"}
    /\ paramsRef \in {"None", "caller", "own"}
    /\ absolute \in BOOLEAN
    /\ trailing \in {"None", "True", "False"}
    /\ idx \in 0..MaxItems
    /\ Len(requests) <= MaxPages
    /\ demanded \in 0..(MaxPages * MaxItems + MaxStops + 1)

\* no call of jql or jql_get_list_of_tickets is made
JqlUnused ==
    /\ start = 0
    /\ validate_query = Null

\* no call of raise_for_status is made
RfsUnused ==
    /\ status_code = 200
    /\ body = NotJson
    /\ rfs_pc = "idle"
    /\ rfs_error = NoError
    /\ rfs_log = <<>>
    /\ json_calls = 0
    /\ transport_calls = 0

\* two generators are not consumed in turns
PairUnused ==
    /\ pair_gen = <<>>
    /\ pair_dicts = <<>>
    /\ pair_shared = FALSE
    /\ pair_server = <<>>
    /\ pair_args = <<>>

\* none of the other operations is called
\* issue_exists is not called
ExistsUnused ==
    /\ advanced_mode = FALSE
    /\ ie_mode0 = FALSE
    /\ ie_pc = <<>>
    /\ ie_original = <<>>
    /\ ie_exit = <<>>

\* get_issue_tree_recursive is not called
TreeUnused ==
    /\ gt_graph = <<>>
    /\ gt_depth0 = 0
    /\ gt_pc = "unused"
    /\ gt_stack = <<>>
    /\ gt_tree = <<>>
    /\ gt_error = "none"
    /\ gt_calls = <<>>

\* bulk_update_issue_field is not called
BulkUnused ==
    /\ bu_keys = <<>>
    /\ bu_pc = "unused"
    /\ bu_i = 0
    /\ bu_puts = <<>>
    /\ bu_applied = <<>>
    /\ bu_log = <<>>
    /\ bu_result = "none"

AuxUnused ==
    /\ PairUnused
    /\ ExistsUnused
    /\ TreeUnused
    /\ BulkUnused

Init ==
    /\ style \in {"link", "offset", "token", "enhanced"}
    /\ cloud \in (IF style = "link" THEN {TRUE} ELSE BOOLEAN)
    /\ paging_workaround \in (IF style = "link" THEN BOOLEAN ELSE {FALSE})
    /\ limit \in (IF style \in {"token", "enhanced"} THEN {NoLimit, 1, 2} ELSE {NoLimit})
    /\ expand \in (IF style \in {"token", "enhanced"} THEN {Null, "E"} ELSE {Null})
    /\ pc = "idle"
    /\ url = InitialUrl
    /\ paramsRef \in (IF style \in {"link", "offset"} THEN {"None", "caller"} ELSE {"None"})
    /\ callerParams \in (IF paramsRef = "caller"
                         THEN {"q" :> "x", "page" :> 7}
                         ELSE {EmptyDict})
    /\ ownParams = EmptyDict
    /\ absolute \in (IF style \in {"link", "offset"} THEN BOOLEAN ELSE {FALSE})
    /\ trailing \in (IF style \in {"link", "offset"} THEN {"None", "True"} ELSE {"None"})
    /\ idx = 0
    /\ next_page_token \in (IF style = "enhanced" THEN Tokens \cup {Null} ELSE {Null})
    /\ results = <<>>
    /\ requests = <<>>
    /\ responses = <<>>
    /\ yielded = <<>>
    /\ demanded = 0
    /\ raised = "none"
    /\ args = [url |-> url, paramsGiven |-> paramsRef = "caller", params |-> callerParams,
               absolute |-> absolute, trailing |-> trailing]
    /\ thrown = "none"
    /\ JqlUnused
    /\ RfsUnused
    /\ AuxUnused

----------------------------------------------------------------------------
(* BitbucketCloudBase._get_paged and Jira._get_paged are generator          *)
(* functions: calling them creates the generator object and runs none of    *)
(* the body; each next() of the consumer runs the body up to the next       *)
(* yield, return or raise.                                                  *)

\* CallGetPaged as an ordinary function would do it: the first request is
\* issued by the call itself
CallGetPaged_Eager ==
    /\ pc = "idle"
    /\ style \in {"link", "offset"}
    /\ pc' = "created"
    /\ requests' = Append(requests, Request(url, callerParams, absolute, trailing))
    /\ UNCHANGED <<auxVars, rfsVars, jqlVars, style, cloud, paging_workaround, limit, expand, args, url, paramsRef,
                   callerParams, ownParams, absolute, trailing, idx, next_page_token,
                   results, responses, yielded, demanded, raised, thrown>>

CallGetPaged ==
    /\ pc = "idle"
    /\ style \in {"link", "offset"}
    /\ pc' = "created"
    /\ UNCHANGED <<auxVars, rfsVars, jqlVars, style, cloud, paging_workaround, limit, expand, args, url, paramsRef,
                   callerParams, ownParams, absolute, trailing, idx, next_page_token,
                   results, requests, responses, yielded, demanded, raised, thrown>>

\* FetchPage without the check for an empty page: the loop goes on after it
FetchPage_NoEmptyCheck(l, out) ==
    LET p == IF l.paramsRef = "caller" THEN l.callerParams ELSE l.ownParams
        vals == IF out.kind = "page" THEN Get(out.page, "values", <<>>) ELSE <<>>
    IN
    /\ requests' = Append(requests, Request(l.url, p, l.absolute, l.trailing))
    /\ url' = l.url
    /\ paramsRef' = l.paramsRef
    /\ callerParams' = l.callerParams
    /\ ownParams' = l.ownParams
    /\ absolute' = l.absolute
    /\ trailing' = l.trailing
    /\ IF out.kind = "error"
       THEN /\ pc' = "raised"
            /\ raised' = out.error
            /\ thrown' = out.error
            /\ UNCHANGED <<responses, yielded, idx>>
       ELSE /\ responses' = Append(responses, out.page)
            /\ UNCHANGED <<raised, thrown>>
            /\ pc' = "suspended"
            /\ yielded' = IF Len(vals) = 0 THEN yielded ELSE Append(yielded, vals[1])
            /\ idx' = IF Len(vals) = 0 THEN 0 ELSE 1

\* FetchPage with the transport's error caught and taken as the end of the data
FetchPage_SwallowError(l, out) ==
    LET p == IF l.paramsRef = "caller" THEN l.callerParams ELSE l.ownParams
        vals == IF out.kind = "page" THEN Get(out.page, "values", <<>>) ELSE <<>>
    IN
    /\ requests' = Append(requests, Request(l.url, p, l.absolute, l.trailing))
    /\ url' = l.url
    /\ paramsRef' = l.paramsRef
    /\ callerParams' = l.callerParams
    /\ ownParams' = l.ownParams
    /\ absolute' = l.absolute
    /\ trailing' = l.trailing
    /\ IF out.kind = "error"
       THEN /\ pc' = "done"
            /\ thrown' = out.error
            /\ UNCHANGED <<raised, responses, yielded, idx>>
       ELSE /\ responses' = Append(responses, out.page)
            /\ UNCHANGED <<raised, thrown>>
            /\ IF Len(vals) = 0
               THEN /\ pc' = "done"
                    /\ UNCHANGED <<yielded, idx>>
               ELSE /\ pc' = "suspended"
                    /\ yielded' = Append(yielded, vals[1])
                    /\ idx' = 1

\* the part of the loop body from the get() call to the first yield:
\* the request is issued with the locals l, and the outcome out is handled
FetchPage(l, out) ==
    LET p == IF l.paramsRef = "caller" THEN l.callerParams ELSE l.ownParams
        vals == IF out.kind = "page" THEN Get(out.page, "values", <<>>) ELSE <<>>
    IN
    /\ requests' = Append(requests, Request(l.url, p, l.absolute, l.trailing))
    /\ url' = l.url
    /\ paramsRef' = l.paramsRef
    /\ callerParams' = l.callerParams
    /\ ownParams' = l.ownParams
    /\ absolute' = l.absolute
    /\ trailing' = l.trailing
    /\ IF out.kind = "error"
       THEN /\ pc' = "raised"
            /\ raised' = out.error
            /\ thrown' = out.error
            /\ UNCHANGED <<responses, yielded, idx>>
       ELSE /\ responses' = Append(responses, out.page)
            /\ UNCHANGED <<raised, thrown>>
            /\ IF Len(vals) = 0
               THEN /\ pc' = "done"
                    /\ UNCHANGED <<yielded, idx>>
               ELSE /\ pc' = "suspended"
                    /\ yielded' = Append(yielded, vals[1])
                    /\ idx' = 1

\* the generator ends (return / break) with the locals l
Finish(l) ==
    /\ pc' = "done"
    /\ url' = l.url
    /\ paramsRef' = l.paramsRef
    /\ callerParams' = l.callerParams
    /\ ownParams' = l.ownParams
    /\ absolute' = l.absolute
    /\ trailing' = l.trailing
    /\ UNCHANGED <<requests, responses, yielded, idx, raised, thrown>>

Locals ==
    [url |-> url, paramsRef |-> paramsRef, callerParams |-> callerParams,
     ownParams |-> ownParams, absolute |-> absolute, trailing |-> trailing]

\* params[k] = v on the mapping the local params refers to
SetParam(l, k, v) ==
    IF l.paramsRef = "caller"
    THEN [l EXCEPT !.callerParams = Put(@, k, v)]
    ELSE [l EXCEPT !.ownParams = Put(@, k, v)]

\* if params is None: params = {}
DefaultParams(l) ==
    IF l.paramsRef = "None" THEN [l EXCEPT !.paramsRef = "own", !.ownParams = EmptyDict] ELSE l

\* FollowUrl without trailing = False
FollowUrl_KeepTrailing(l, u) ==
    [l EXCEPT !.url = u, !.absolute = TRUE, !.paramsRef = "own", !.ownParams = EmptyDict]

\* the three assignments after a continuation url u was taken
FollowUrl(l, u) ==
    [l EXCEPT !.url = u, !.absolute = TRUE, !.paramsRef = "own",
              !.ownParams = EmptyDict, !.trailing = "False"]

\* LinkPrologue with params.setdefault("page", 1) in place of params["page"] = 1
LinkPrologue_SetDefault(l) ==
    LET l1 == DefaultParams(l)
        p == IF l1.paramsRef = "caller" THEN l1.callerParams ELSE l1.ownParams
    IN IF paging_workaround /\ "page" \notin DOMAIN p THEN SetParam(l1, "page", 1) ELSE l1

\* BitbucketCloudBase._get_paged before the loop
LinkPrologue(l) ==
    LET l1 == DefaultParams(l)
    IN IF paging_workaround THEN SetParam(l1, "page", 1) ELSE l1

\* first next(): BitbucketCloudBase._get_paged runs from its first line to the first yield
StartLink ==
    /\ pc = "created"
    /\ style = "link"
    /\ demanded' = demanded + 1
    /\ \E out \in Outcomes(style, Len(requests) + 1) : FetchPage(LinkPrologue(Locals), out)
    /\ UNCHANGED <<auxVars, rfsVars, jqlVars, style, cloud, paging_workaround, limit, expand, args, next_page_token, results>>

\* StartOffset with the test of self.cloud inverted
StartOffset_ServerOnly ==
    /\ pc = "created"
    /\ style = "offset"
    /\ demanded' = demanded + 1
    /\ IF ~cloud
       THEN \E out \in Outcomes(style, Len(requests) + 1) : FetchPage(DefaultParams(Locals), out)
       ELSE /\ pc' = "raised"
            /\ raised' = "ValueError"
            /\ UNCHANGED <<url, paramsRef, callerParams, ownParams, absolute, trailing,
                           idx, requests, responses, yielded, thrown>>
    /\ UNCHANGED <<auxVars, rfsVars, jqlVars, style, cloud, paging_workaround, limit, expand, args, next_page_token, results>>

\* first next(): Jira._get_paged runs from its first line to the first yield
StartOffset ==
    /\ pc = "created"
    /\ style = "offset"
    /\ demanded' = demanded + 1
    /\ IF cloud
       THEN \E out \in Outcomes(style, Len(requests) + 1) : FetchPage(DefaultParams(Locals), out)
       ELSE /\ pc' = "raised"
            /\ raised' = "ValueError"
            /\ UNCHANGED <<url, paramsRef, callerParams, ownParams, absolute, trailing,
                           idx, requests, responses, yielded, thrown>>
    /\ UNCHANGED <<auxVars, rfsVars, jqlVars, style, cloud, paging_workaround, limit, expand, args, next_page_token, results>>

\* NextValue that requests the next page ahead of the demand for it
NextValue_Prefetch ==
    /\ pc = "suspended"
    /\ idx < Len(values)
    /\ demanded' = demanded + 1
    /\ yielded' = Append(yielded, values[idx + 1])
    /\ idx' = idx + 1
    /\ requests' = IF Len(requests) < MaxPages
                   THEN Append(requests, Request(url, params, absolute, trailing))
                   ELSE requests
    /\ UNCHANGED <<auxVars, rfsVars, jqlVars, style, cloud, paging_workaround, limit, expand, args, pc, url, paramsRef,
                   callerParams, ownParams, absolute, trailing, next_page_token,
                   results, responses, raised, thrown>>

\* NextValue with an index off by one: the value yielded last is yielded again
NextValue_Repeat ==
    /\ pc = "suspended"
    /\ idx < Len(values)
    /\ demanded' = demanded + 1
    /\ yielded' = Append(yielded, values[idx])
    /\ idx' = idx + 1
    /\ UNCHANGED <<auxVars, rfsVars, jqlVars, style, cloud, paging_workaround, limit, expand, args, pc, url, paramsRef,
                   callerParams, ownParams, absolute, trailing, next_page_token,
                   results, requests, responses, raised, thrown>>

\* next() while the for loop over the page's values has values left
NextValue ==
    /\ pc = "suspended"
    /\ idx < Len(values)
    /\ demanded' = demanded + 1
    /\ yielded' = Append(yielded, values[idx + 1])
    /\ idx' = idx + 1
    /\ UNCHANGED <<auxVars, rfsVars, jqlVars, style, cloud, paging_workaround, limit, expand, args, pc, url, paramsRef,
                   callerParams, ownParams, absolute, trailing, next_page_token,
                   results, requests, responses, raised, thrown>>

\* LinkContinuation reading the key nextPage of the offset based envelope
LinkContinuation_WrongKey(l, resp) ==
    IF paging_workaround
    THEN [stop |-> FALSE,
          locals |-> SetParam(l, "page",
                        (IF l.paramsRef = "caller" THEN l.callerParams ELSE l.ownParams)["page"] + 1)]
    ELSE LET u == Get(resp, "nextPage", Null)
         IN IF u = Null
            THEN [stop |-> TRUE, locals |-> [l EXCEPT !.url = u]]
            ELSE [stop |-> FALSE, locals |-> FollowUrl(l, u)]

\* BitbucketCloudBase._get_paged after the for loop: the locals of the next
\* iteration, and whether the loop is left
LinkContinuation(l, resp) ==
    IF paging_workaround
    THEN [stop |-> FALSE,
          locals |-> SetParam(l, "page",
                        (IF l.paramsRef = "caller" THEN l.callerParams ELSE l.ownParams)["page"] + 1)]
    ELSE LET u == Get(resp, "next", Null)
         IN IF u = Null
            THEN [stop |-> TRUE, locals |-> [l EXCEPT !.url = u]]
            ELSE [stop |-> FALSE, locals |-> FollowUrl(l, u)]

\* OffsetContinuation without the test of isLast
OffsetContinuation_IgnoreIsLast(l, resp) ==
    IF Len(Get(resp, "values", <<>>)) = 0
    THEN [stop |-> TRUE, locals |-> l]
    ELSE LET u == Get(resp, "nextPage", Null)
         IN IF u = Null
            THEN [stop |-> TRUE, locals |-> [l EXCEPT !.url = u]]
            ELSE [stop |-> FALSE, locals |-> FollowUrl(l, u)]

\* OffsetContinuation without the test of the url taken from nextPage
OffsetContinuation_FollowNull(l, resp) ==
    IF Get(resp, "isLast", FALSE) \/ Len(Get(resp, "values", <<>>)) = 0
    THEN [stop |-> TRUE, locals |-> l]
    ELSE [stop |-> FALSE, locals |-> FollowUrl(l, Get(resp, "nextPage", Null))]

\* Jira._get_paged after the for loop
OffsetContinuation(l, resp) ==
    IF Get(resp, "isLast", FALSE) \/ Len(Get(resp, "values", <<>>)) = 0
    THEN [stop |-> TRUE, locals |-> l]
    ELSE LET u == Get(resp, "nextPage", Null)
         IN IF u = Null
            THEN [stop |-> TRUE, locals |-> [l EXCEPT !.url = u]]
            ELSE [stop |-> FALSE, locals |-> FollowUrl(l, u)]

\* next() after the last value of a page: the rest of the loop body and the next iteration
NextPage(c) ==
    /\ pc = "suspended"
    /\ idx = Len(values)
    /\ demanded' = demanded + 1
    /\ IF c.stop
       THEN Finish(c.locals)
       ELSE \E out \in Outcomes(style, Len(requests) + 1) : FetchPage(c.locals, out)
    /\ UNCHANGED <<auxVars, rfsVars, jqlVars, style, cloud, paging_workaround, limit, expand, args, next_page_token, results>>

NextPageLink ==
    /\ style = "link"
    /\ pc = "suspended"
    /\ NextPage(LinkContinuation(Locals, response))

NextPageOffset ==
    /\ style = "offset"
    /\ pc = "suspended"
    /\ NextPage(OffsetContinuation(Locals, response))

\* next() on a generator that returned or raised: StopIteration, the body does not run
NextAfterEnd ==
    /\ style \in {"link", "offset"}
    /\ pc \in {"done", "raised"}
    /\ demanded - Len(yielded) < 1 + MaxStops
    /\ demanded' = demanded + 1
    /\ UNCHANGED <<auxVars, rfsVars, jqlVars, style, cloud, paging_workaround, limit, expand, args, pc, url, paramsRef,
                   callerParams, ownParams, absolute, trailing, idx, next_page_token,
                   results, requests, responses, yielded, raised, thrown>>

----------------------------------------------------------------------------
(* Token based search of Jira Cloud *)

SearchJqlUrl == "search/jql"     \* self.resource_url("search/jql")
Jql == "J"                       \* argument jql
Fields == "*all"                 \* argument fields (its default)

\* the params mapping both token based methods build from their arguments
SearchParams(token, lim, exp) ==
    LET p0 == EmptyDict
        p1 == IF token # Null THEN Put(p0, "nextPageToken", token) ELSE p0
        p2 == IF lim # NoLimit THEN Put(p1, "maxResults", lim) ELSE p1
        p3 == Put(p2, "fields", Fields)
        p4 == Put(p3, "jql", Jql)
    IN IF exp # Null THEN Put(p4, "expand", exp) ELSE p4

\* EnhancedJql without the test of self.cloud
EnhancedJql_NoCloudCheck ==
    /\ pc = "idle"
    /\ style = "enhanced"
    /\ paramsRef' = "own"
    /\ ownParams' = SearchParams(next_page_token, limit, expand)
    /\ url' = SearchJqlUrl
    /\ requests' = Append(requests, Request(url', ownParams', FALSE, "None"))
    /\ \E out \in Outcomes(style, Len(requests) + 1) :
         IF out.kind = "error"
         THEN /\ pc' = "raised"
              /\ raised' = out.error
              /\ thrown' = out.error
              /\ UNCHANGED responses
         ELSE /\ pc' = "done"
              /\ responses' = Append(responses, out.page)
              /\ UNCHANGED <<raised, thrown>>
    /\ UNCHANGED <<auxVars, rfsVars, jqlVars, style, cloud, paging_workaround, limit, expand, args, callerParams, absolute,
                   trailing, idx, next_page_token, results, yielded, demanded>>

\* Jira.enhanced_jql: one request, the decoded page is returned
\* the body of enhanced_jql, called with nextPageToken = token
EnhancedJqlCall(token) ==
    IF ~cloud
    THEN /\ pc' = "raised"
         /\ raised' = "ValueError"
         /\ UNCHANGED <<url, paramsRef, ownParams, requests, responses, thrown>>
    ELSE /\ paramsRef' = "own"
         /\ ownParams' = SearchParams(token, limit, expand)
         /\ url' = SearchJqlUrl
         /\ requests' = Append(requests, Request(url', ownParams', FALSE, "None"))
         /\ \E out \in Outcomes(style, Len(requests) + 1) :
              IF out.kind = "error"
              THEN /\ pc' = "raised"
                   /\ raised' = out.error
                   /\ thrown' = out.error
                   /\ UNCHANGED responses
              ELSE /\ pc' = "done"
                   /\ responses' = Append(responses, out.page)
                   /\ UNCHANGED <<raised, thrown>>

EnhancedJql ==
    /\ pc = "idle"
    /\ style = "enhanced"
    /\ EnhancedJqlCall(next_page_token)
    /\ UNCHANGED <<auxVars, rfsVars, jqlVars, style, cloud, paging_workaround, limit, expand, args, callerParams, absolute,
                   trailing, idx, next_page_token, results, yielded, demanded>>

\* Jira.enhanced_jql_get_list_of_tickets from its first line to the loop
EnhancedListPrologue ==
    IF ~cloud
    THEN /\ pc' = "raised"
         /\ raised' = "ValueError"
         /\ UNCHANGED <<url, paramsRef, ownParams, results, next_page_token>>
    ELSE /\ pc' = "running"
         /\ paramsRef' = "own"
         /\ ownParams' = SearchParams(Null, limit, expand)
         /\ url' = SearchJqlUrl
         /\ results' = <<>>
         /\ next_page_token' = Null
         /\ UNCHANGED raised

CallEnhancedList ==
    /\ pc = "idle"
    /\ style = "token"
    /\ EnhancedListPrologue
    /\ UNCHANGED <<auxVars, rfsVars, jqlVars, style, cloud, paging_workaround, limit, expand, args, callerParams, absolute,
                   trailing, idx, requests, responses, yielded, demanded, thrown>>

\* ListBreak that tests the token against None only
ListBreak_OnlyNone(tok, res) == tok = Null \/ (limit # NoLimit /\ Len(res) >= limit)

\* whether the loop of enhanced_jql_get_list_of_tickets is left after a page
\* with token tok, res being the issues collected so far
ListBreak(tok, res) == Falsy(tok) \/ (limit # NoLimit /\ Len(res) >= limit)

\* WithToken that never sends the token
WithToken_Dropped(p, tok) == p

\* if next_page_token is not None: params["nextPageToken"] = next_page_token
WithToken(p, tok) == IF tok # Null THEN Put(p, "nextPageToken", tok) ELSE p

\* the loop of enhanced_jql_get_list_of_tickets runs: the method was called
\* directly, or by jql_get_list_of_tickets on a cloud client
TokenLoop == style = "token" \/ (style = "jql_list" /\ cloud)

\* one iteration of the loop of enhanced_jql_get_list_of_tickets
EnhancedListStep ==
    /\ pc = "running"
    /\ TokenLoop
    /\ ownParams' = WithToken(ownParams, next_page_token)
    /\ requests' = Append(requests, Request(url, ownParams', FALSE, "None"))
    /\ \E out \in Outcomes(style, Len(requests) + 1) :
         IF out.kind = "error"
         THEN /\ pc' = "raised"
              /\ raised' = out.error
              /\ thrown' = out.error
              /\ UNCHANGED <<responses, results, next_page_token>>
         ELSE /\ responses' = Append(responses, out.page)
              /\ UNCHANGED <<raised, thrown>>
              /\ IF out.page = EmptyDict
                 THEN /\ pc' = "done"
                      /\ UNCHANGED <<results, next_page_token>>
                 ELSE /\ results' = results \o out.page["issues"]
                      /\ next_page_token' = Get(out.page, "nextPageToken", Null)
                      /\ pc' = IF ListBreak(next_page_token', results') THEN "done" ELSE "running"
    /\ UNCHANGED <<auxVars, rfsVars, jqlVars, style, cloud, paging_workaround, limit, expand, args, url, paramsRef,
                   callerParams, absolute, trailing, idx, yielded, demanded>>

\* the caller takes the next issue of the returned list
TakeResult ==
    /\ style = "token"
    /\ pc = "done"
    /\ demanded < Len(results)
    /\ demanded' = demanded + 1
    /\ UNCHANGED <<auxVars, rfsVars, jqlVars, style, cloud, paging_workaround, limit, expand, args, pc, url, paramsRef,
                   callerParams, ownParams, absolute, trailing, idx, next_page_token,
                   results, requests, responses, yielded, raised, thrown>>

----------------------------------------------------------------------------
Next ==
    \/ CallGetPaged
    \/ StartLink
    \/ StartOffset
    \/ NextValue
    \/ NextPageLink
    \/ NextPageOffset
    \/ NextAfterEnd
    \/ EnhancedJql
    \/ CallEnhancedList
    \/ EnhancedListStep
    \/ TakeResult

Spec == Init /\ [][Next]_vars

----------------------------------------------------------------------------
(* BitbucketCloudBase.raise_for_status *)

\* decoded JSON values, tagged with their Python type
JNull == [t |-> "null"]
JStr(x) == [t |-> "str", v |-> x]
JNum(n) == [t |-> "num", v |-> n]
JList(l) == [t |-> "list", v |-> l]
JObj(d) == [t |-> "obj", v |-> d]

\* Python truthiness
Truthy(x) ==
    CASE x.t = "null" -> FALSE
      [] x.t = "str" -> x.v # ""
      [] x.t = "num" -> x.v # 0
      [] x.t = "list" -> x.v # <<>>
      [] x.t = "obj" -> DOMAIN x.v # {}

\* str(x), and the {x} of an f-string
Str(x) ==
    CASE x.t = "str" -> x.v
      [] x.t = "null" -> "None"
      [] x.t = "num" -> (CASE x.v = 0 -> "0" [] x.v = 5 -> "5" [] OTHER -> "?")
      [] x.t = "list" -> (IF x.v = <<>> THEN "[]" ELSE "['x']")
      [] x.t = "obj" -> "{}"

\* Subscript that answers None for a missing key, as dict.get does
Subscript_Lenient(x, k) ==
    IF x.t = "obj"
    THEN [ok |-> TRUE, val |-> Get(x.v, k, JNull)]
    ELSE [ok |-> FALSE, exc |-> "TypeError"]

\* x[k] for a string key k: the value, or the exception raised
Subscript(x, k) ==
    IF x.t = "obj"
    THEN IF k \in DOMAIN x.v
         THEN [ok |-> TRUE, val |-> x.v[k]]
         ELSE [ok |-> FALSE, exc |-> "KeyError"]
    ELSE [ok |-> FALSE, exc |-> "TypeError"]

\* response.json(): the decoded body, or the exception raised
Json(b) ==
    IF b = NotJson
    THEN [ok |-> FALSE, exc |-> "JSONDecodeError"]
    ELSE [ok |-> TRUE, val |-> b]

\* ComposeMessage without the newline
ComposeMessage_NoNewline(error_msg, detail) == JStr(Str(error_msg) \o Str(detail))

\* f"{error_msg}\n{str(e['detail'])}"
ComposeMessage(error_msg, detail) == JStr(Str(error_msg) \o "\n" \o Str(detail))

\* ExtractMessage that appends the detail whenever the key is present
ExtractMessage_AnyDetail(b) ==
    LET j == Json(b)
    IN IF ~j.ok THEN j
       ELSE LET e == Subscript(j.val, "error")
            IN IF ~e.ok THEN e
               ELSE LET error_msg == Subscript(e.val, "message")
                    IN IF ~error_msg.ok THEN error_msg
                       ELSE IF "detail" \in DOMAIN e.val.v
                            THEN [ok |-> TRUE,
                                  val |-> ComposeMessage(error_msg.val, e.val.v["detail"])]
                            ELSE [ok |-> TRUE, val |-> error_msg.val]

\* the try block of raise_for_status: error_msg, or the exception caught
ExtractMessage(b) ==
    LET j == Json(b)
    IN IF ~j.ok THEN j
       ELSE LET e == Subscript(j.val, "error")
            IN IF ~e.ok THEN e
               ELSE LET error_msg == Subscript(e.val, "message")
                    IN IF ~error_msg.ok THEN error_msg
                       ELSE LET detail == Get(e.val.v, "detail", JNull)
                            IN IF Truthy(detail)
                               THEN [ok |-> TRUE, val |-> ComposeMessage(error_msg.val, detail)]
                               ELSE [ok |-> TRUE, val |-> error_msg.val]

\* HTTPError(error_msg, response=response)
NormalizedError(error_msg, sc) ==
    [kind |-> "HTTPError", origin |-> "raise_for_status", message |-> error_msg, response |-> sc]

\* the HTTPError that response.raise_for_status() of the requests library raises
TransportError(sc) ==
    [kind |-> "HTTPError", origin |-> "response", response |-> sc]

\* response.raise_for_status() of the requests library raises for 4xx and 5xx only
TransportRaises(sc) == 400 <= sc /\ sc < 600

\* the call response.raise_for_status() as the last statement of a path
CallTransport ==
    /\ transport_calls' = transport_calls + 1
    /\ IF TransportRaises(status_code)
       THEN /\ rfs_pc' = "raised"
            /\ rfs_error' = TransportError(status_code)
       ELSE /\ rfs_pc' = "returned"
            /\ UNCHANGED rfs_error

\* IsErrorStatus without the upper bound
IsErrorStatus_NoUpper(sc) == 400 <= sc

\* if 400 <= response.status_code < 600
IsErrorStatus(sc) == 400 <= sc /\ sc < 600

\* RaiseForStatus without the try: the exception of the extraction leaves the method
RaiseForStatus_Propagate ==
    /\ rfs_pc = "idle"
    /\ IF IsErrorStatus(status_code)
       THEN LET m == ExtractMessage(body)
            IN /\ json_calls' = json_calls + 1
               /\ rfs_pc' = "raised"
               /\ rfs_error' = IF m.ok THEN NormalizedError(m.val, status_code)
                                       ELSE [kind |-> m.exc]
               /\ UNCHANGED <<rfs_log, transport_calls>>
       ELSE /\ CallTransport
            /\ UNCHANGED <<json_calls, rfs_log>>
    /\ UNCHANGED <<status_code, body, pagedVars, jqlVars, auxVars>>

RaiseForStatus ==
    /\ rfs_pc = "idle"
    /\ IF IsErrorStatus(status_code)
       THEN LET m == ExtractMessage(body)
            IN /\ json_calls' = json_calls + 1
               /\ IF m.ok
                  THEN /\ rfs_pc' = "raised"
                       /\ rfs_error' = NormalizedError(m.val, status_code)
                       /\ UNCHANGED <<rfs_log, transport_calls>>
                  ELSE /\ rfs_log' = Append(rfs_log, m.exc)
                       /\ CallTransport
       ELSE /\ CallTransport
            /\ UNCHANGED <<json_calls, rfs_log>>
    /\ UNCHANGED <<status_code, body, pagedVars, jqlVars, auxVars>>

StatusCodes == {200, 302, 399, 400, 404, 500, 599, 600, 700}

Messages == {JStr("Bad"), JStr("Not found")}

\* values of error.detail: strings, null, numbers, a list
Details == {JStr("extra"), JStr(""), JNull, JNum(0), JNum(5), JList(<<>>), JList(<<"x">>)}

\* values of the key error
ErrorValues ==
    {JObj("message" :> m) : m \in Messages}
    \cup {JObj("message" :> m @@ "detail" :> d) : m \in Messages, d \in Details}
    \cup {JObj(EmptyDict), JObj("detail" :> JStr("extra")), JStr("oops"), JNull, JList(<<>>)}

Bodies ==
    {NotJson, JNull, JList(<<>>), JStr("oops"), JObj(EmptyDict), JObj("type" :> JStr("error"))}
    \cup {JObj("error" :> e) : e \in ErrorValues}

\* no paged fetch is made
PagedUnused ==
    /\ style = "link"
    /\ cloud = TRUE
    /\ paging_workaround = FALSE
    /\ limit = NoLimit
    /\ expand = Null
    /\ pc = "unused"
    /\ url = InitialUrl
    /\ paramsRef = "None"
    /\ callerParams = EmptyDict
    /\ ownParams = EmptyDict
    /\ absolute = FALSE
    /\ trailing = "None"
    /\ idx = 0
    /\ next_page_token = Null
    /\ results = <<>>
    /\ requests = <<>>
    /\ responses = <<>>
    /\ yielded = <<>>
    /\ demanded = 0
    /\ raised = "none"
    /\ args = [url |-> url, paramsGiven |-> FALSE, params |-> EmptyDict,
               absolute |-> FALSE, trailing |-> "None"]
    /\ thrown = "none"

InitRfs ==
    /\ status_code \in StatusCodes
    /\ body \in Bodies
    /\ rfs_pc = "idle"
    /\ rfs_error = NoError
    /\ rfs_log = <<>>
    /\ json_calls = 0
    /\ transport_calls = 0
    /\ PagedUnused
    /\ JqlUnused
    /\ AuxUnused

NextRfs == RaiseForStatus

SpecRfs == InitRfs /\ [][NextRfs]_vars

----------------------------------------------------------------------------
(* Jira.jql and Jira.jql_get_list_of_tickets *)

SearchUrl == "search"            \* self.resource_url("search")

\* the params mapping jql and jql_get_list_of_tickets build on Jira Server,
\* before startAt is set
ClassicParams(lim, exp, vq) ==
    LET p0 == EmptyDict
        p1 == IF lim # NoLimit THEN Put(p0, "maxResults", lim) ELSE p0
        p2 == Put(p1, "fields", Fields)
        p3 == Put(p2, "jql", Jql)
        p4 == IF exp # Null THEN Put(p3, "expand", exp) ELSE p3
    IN IF vq # Null THEN Put(p4, "validateQuery", vq) ELSE p4

\* Jira.jql: on a cloud client enhanced_jql is called when start is 0
CallJql ==
    /\ pc = "idle"
    /\ style = "jql"
    /\ IF cloud
       THEN IF start = 0
            THEN EnhancedJqlCall(Null)
            ELSE /\ pc' = "raised"
                 /\ raised' = "ValueError"
                 /\ UNCHANGED <<url, paramsRef, ownParams, requests, responses, thrown>>
       ELSE /\ paramsRef' = "own"
            /\ ownParams' = Put(ClassicParams(limit, expand, validate_query), "startAt", start)
            /\ url' = SearchUrl
            /\ requests' = Append(requests, Request(url', ownParams', FALSE, "None"))
            /\ \E out \in Outcomes(style, Len(requests) + 1) :
                 IF out.kind = "error"
                 THEN /\ pc' = "raised"
                      /\ raised' = out.error
                      /\ thrown' = out.error
                      /\ UNCHANGED responses
                 ELSE /\ pc' = "done"
                      /\ responses' = Append(responses, out.page)
                      /\ UNCHANGED <<raised, thrown>>
    /\ UNCHANGED <<auxVars, rfsVars, jqlVars, style, cloud, paging_workaround, limit, expand, args,
                   callerParams, absolute, trailing, idx, next_page_token, results,
                   yielded, demanded>>

\* CallJqlList that hands every call on a cloud client to the enhanced method
CallJqlList_IgnoreStart ==
    /\ pc = "idle"
    /\ style = "jql_list"
    /\ IF cloud
       THEN EnhancedListPrologue
       ELSE /\ pc' = "running"
            /\ paramsRef' = "own"
            /\ ownParams' = ClassicParams(limit, expand, validate_query)
            /\ url' = SearchUrl
            /\ results' = <<>>
            /\ UNCHANGED <<raised, next_page_token>>
    /\ UNCHANGED <<auxVars, rfsVars, jqlVars, style, cloud, paging_workaround, limit, expand, args,
                   callerParams, absolute, trailing, idx, requests, responses, yielded,
                   demanded, thrown>>

\* Jira.jql_get_list_of_tickets from its first line to the loop; on a cloud
\* client enhanced_jql_get_list_of_tickets is called when start is 0
CallJqlList ==
    /\ pc = "idle"
    /\ style = "jql_list"
    /\ IF cloud
       THEN IF start = 0
            THEN EnhancedListPrologue
            ELSE /\ pc' = "raised"
                 /\ raised' = "ValueError"
                 /\ UNCHANGED <<url, paramsRef, ownParams, results, next_page_token>>
       ELSE /\ pc' = "running"
            /\ paramsRef' = "own"
            /\ ownParams' = ClassicParams(limit, expand, validate_query)
            /\ url' = SearchUrl
            /\ results' = <<>>
            /\ UNCHANGED <<raised, next_page_token>>
    /\ UNCHANGED <<auxVars, rfsVars, jqlVars, style, cloud, paging_workaround, limit, expand, args,
                   callerParams, absolute, trailing, idx, requests, responses, yielded,
                   demanded, thrown>>

\* SearchBreak without the test of limit
SearchBreak_IgnoreLimit(page, st) == page["total"] <= Len(page["issues"]) + st

\* whether the loop of jql_get_list_of_tickets is left after a page
SearchBreak(page, st) ==
    limit # NoLimit \/ page["total"] <= Len(page["issues"]) + st

\* one iteration of the loop of jql_get_list_of_tickets on Jira Server
JqlListStep ==
    /\ pc = "running"
    /\ style = "jql_list"
    /\ ~cloud
    /\ ownParams' = Put(ownParams, "startAt", start)
    /\ requests' = Append(requests, Request(url, ownParams', FALSE, "None"))
    /\ \E out \in Outcomes(style, Len(requests) + 1) :
         IF out.kind = "error"
         THEN /\ pc' = "raised"
              /\ raised' = out.error
              /\ thrown' = out.error
              /\ UNCHANGED <<responses, results, start>>
         ELSE /\ responses' = Append(responses, out.page)
              /\ UNCHANGED <<raised, thrown>>
              /\ IF out.page = EmptyDict
                 THEN /\ pc' = "done"
                      /\ UNCHANGED <<results, start>>
                 ELSE /\ results' = results \o out.page["issues"]
                      /\ IF SearchBreak(out.page, start)
                         THEN /\ pc' = "done"
                              /\ UNCHANGED start
                         ELSE /\ pc' = "running"
                              /\ start' = start + Len(out.page["issues"])
    /\ UNCHANGED <<auxVars, rfsVars, validate_query, style, cloud, paging_workaround, limit, expand,
                   args, url, paramsRef, callerParams, absolute, trailing, idx,
                   next_page_token, yielded, demanded>>

InitJql ==
    /\ style \in {"jql", "jql_list"}
    /\ cloud \in BOOLEAN
    /\ paging_workaround = FALSE
    /\ limit \in {NoLimit, 2}
    /\ expand \in {Null, "E"}
    /\ start \in {0, 1}
    /\ validate_query \in {Null, "strict"}
    /\ pc = "idle"
    /\ url = InitialUrl
    /\ paramsRef = "None"
    /\ callerParams = EmptyDict
    /\ ownParams = EmptyDict
    /\ absolute = FALSE
    /\ trailing = "None"
    /\ idx = 0
    /\ next_page_token = Null
    /\ results = <<>>
    /\ requests = <<>>
    /\ responses = <<>>
    /\ yielded = <<>>
    /\ demanded = 0
    /\ raised = "none"
    /\ args = [url |-> url, paramsGiven |-> FALSE, params |-> EmptyDict,
               absolute |-> FALSE, trailing |-> "None", start |-> start]
    /\ thrown = "none"
    /\ RfsUnused
    /\ AuxUnused

NextJql ==
    \/ CallJql
    \/ CallJqlList
    \/ JqlListStep
    \/ EnhancedListStep

SpecJql == InitJql /\ [][NextJql]_vars

----------------------------------------------------------------------------
(* Two generators of BitbucketCloudBase._get_paged, consumed in turns by one *)
(* thread. The caller passes each call a params mapping, the same object to  *)
(* both calls or one object for each.                                        *)

MaxPairPages == 2   \* with the workaround the server holds pages 1..MaxPairPages

Fetches == {1, 2}

\* the mapping object call i was given as params
DictOf(i) == IF pair_shared THEN 1 ELSE i

\* what the server decides on: the url and the page parameter of a request
PairKey(req) == <<req.url, Get(req.params, "page", 0)>>

\* the page the server answers a request with; it holds nothing elsewhere
PairAnswer(req) == Get(pair_server, PairKey(req), ("values" :> <<>>))

\* the locals of generator g, d being the content of the caller's mapping
PairLocals(g, d) ==
    [url |-> g.url, paramsRef |-> g.paramsRef, callerParams |-> d,
     ownParams |-> g.ownParams, absolute |-> g.absolute, trailing |-> g.trailing]

\* the loop body from the get() call to the first yield, with the locals l:
\* the generator after it, and the content of the caller's mapping
PairFetch(g, l) ==
    LET p == IF l.paramsRef = "caller" THEN l.callerParams ELSE l.ownParams
        req == Request(l.url, p, l.absolute, l.trailing)
        resp == PairAnswer(req)
        vals == Get(resp, "values", <<>>)
    IN [gen |-> [g EXCEPT !.url = l.url, !.paramsRef = l.paramsRef,
                          !.ownParams = l.ownParams, !.absolute = l.absolute,
                          !.trailing = l.trailing,
                          !.requests = Append(@, req),
                          !.responses = Append(@, resp),
                          !.pc = IF Len(vals) = 0 THEN "done" ELSE "suspended",
                          !.yielded = IF Len(vals) = 0 THEN @ ELSE Append(@, vals[1]),
                          !.idx = IF Len(vals) = 0 THEN 0 ELSE 1],
        dict |-> l.callerParams]

\* one next() on generator g: the body of BitbucketCloudBase._get_paged runs
\* up to the next yield or return; d is the content of the caller's mapping
PairNextOf(g, d) ==
    LET resp == g.responses[Len(g.responses)]
        vals == Get(resp, "values", <<>>)
    IN CASE g.pc = "created" -> PairFetch(g, LinkPrologue(PairLocals(g, d)))
         [] g.pc = "suspended" /\ g.idx < Len(vals) ->
                [gen |-> [g EXCEPT !.yielded = Append(@, vals[g.idx + 1]), !.idx = @ + 1],
                 dict |-> d]
         [] g.pc = "suspended" /\ g.idx = Len(vals) ->
                LET c == LinkContinuation(PairLocals(g, d), resp)
                IN IF c.stop
                   THEN [gen |-> [g EXCEPT !.pc = "done", !.url = c.locals.url],
                         dict |-> c.locals.callerParams]
                   ELSE PairFetch(g, c.locals)
         [] OTHER -> [gen |-> g, dict |-> d]

\* the call _get_paged(...) number i: the generator object is created
PairCall(i) ==
    /\ pair_gen # <<>>
    /\ pair_gen[i].pc = "idle"
    /\ pair_gen' = [pair_gen EXCEPT ![i].pc = "created"]
    /\ UNCHANGED <<pair_dicts, pair_shared, pair_server, pair_args, pagedVars, jqlVars, rfsVars,
                   existsVars, treeVars, bulkVars>>

\* the consumer calls next() on generator i
PairNext(i) ==
    /\ pair_gen # <<>>
    /\ pair_gen[i].pc \in {"created", "suspended"}
    /\ LET r == PairNextOf(pair_gen[i], pair_dicts[DictOf(i)])
       IN /\ pair_gen' = [pair_gen EXCEPT ![i] = r.gen]
          /\ pair_dicts' = [pair_dicts EXCEPT ![DictOf(i)] = r.dict]
    /\ UNCHANGED <<pair_shared, pair_server, pair_args, pagedVars, jqlVars, rfsVars,
                   existsVars, treeVars, bulkVars>>

\* the servers: with the workaround pages 1..MaxPairPages of the url, without
\* it a finite chain of pages linked by next
PairServers(workaround, page0) ==
    IF workaround
    THEN [{<<InitialUrl, k>> : k \in 1..MaxPairPages} -> {("values" :> v) : v \in PageValues}]
    ELSE {(<<InitialUrl, page0>> :> ("values" :> v0 @@ "next" :> n0)
            @@ <<"U1", 0>> :> ("values" :> v1 @@ "next" :> n1)
            @@ <<"U2", 0>> :> ("values" :> v2 @@ "next" :> Null)) :
              v0 \in PageValues, n0 \in {"U1", "U2", Null},
              v1 \in PageValues, n1 \in {"U2", Null},
              v2 \in PageValues}

InitPair ==
    /\ style = "link"
    /\ cloud = TRUE
    /\ paging_workaround \in BOOLEAN
    /\ limit = NoLimit
    /\ expand = Null
    /\ pc = "unused"
    /\ url = InitialUrl
    /\ paramsRef = "None"
    /\ callerParams = EmptyDict
    /\ ownParams = EmptyDict
    /\ absolute = FALSE
    /\ trailing = "None"
    /\ idx = 0
    /\ next_page_token = Null
    /\ results = <<>>
    /\ requests = <<>>
    /\ responses = <<>>
    /\ yielded = <<>>
    /\ demanded = 0
    /\ raised = "none"
    /\ args = [url |-> url, paramsGiven |-> FALSE, params |-> EmptyDict,
               absolute |-> FALSE, trailing |-> "None"]
    /\ thrown = "none"
    /\ JqlUnused
    /\ RfsUnused
    /\ ExistsUnused
    /\ TreeUnused
    /\ BulkUnused
    /\ \E given \in BOOLEAN :
       \E content \in (IF given THEN {"q" :> "x", "page" :> 7} ELSE {EmptyDict}) :
          /\ pair_shared \in (IF given THEN BOOLEAN ELSE {FALSE})
          /\ pair_args = [url |-> InitialUrl, paramsGiven |-> given, params |-> content,
                          absolute |-> FALSE, trailing |-> "None"]
          /\ pair_dicts = [i \in Fetches |-> content]
          /\ pair_gen = [i \in Fetches |->
                [pc |-> "idle", url |-> InitialUrl,
                 paramsRef |-> IF given THEN "caller" ELSE "None",
                 ownParams |-> EmptyDict, absolute |-> FALSE, trailing |-> "None",
                 idx |-> 0, requests |-> <<>>, responses |-> <<>>, yielded |-> <<>>]]
          /\ pair_server \in PairServers(paging_workaround, Get(content, "page", 0))

NextPair == \E i \in Fetches : PairCall(i) \/ PairNext(i)

SpecPair == InitPair /\ [][NextPair]_vars

----------------------------------------------------------------------------
(* Jira.issue_exists: two calls on one client, each in a thread of its own; *)
(* a thread switch may fall between any two statements.                      *)

Threads == {1, 2}

\* what self.issue(issue_key, fields="*none") does in advanced mode: it
\* returns the response, with its status code, or the transport raises
IssueOutcomes ==
    [kind : {"response"}, status_code : {200, 302, 404, 500}]
    \cup [kind : {"error"}, error : {"ConnectionError"}]

\* the way the try block is left after the request: return True, return
\* False, or the exception raised
ExitOf(out) ==
    IF out.kind = "error" THEN out.error
    ELSE IF out.status_code = 404 THEN "False"
    ELSE IF TransportRaises(out.status_code) THEN "HTTPError"
    ELSE "True"

\* original_value = self.advanced_mode
IssueExistsSave(t) ==
    /\ ie_pc # <<>>
    /\ ie_pc[t] = "idle"
    /\ ie_original' = [ie_original EXCEPT ![t] = advanced_mode]
    /\ ie_pc' = [ie_pc EXCEPT ![t] = "saved"]
    /\ UNCHANGED <<advanced_mode, ie_mode0, ie_exit, pagedVars, jqlVars, rfsVars, pairVars,
                   treeVars, bulkVars>>

\* self.advanced_mode = True
IssueExistsSet(t) ==
    /\ ie_pc # <<>>
    /\ ie_pc[t] = "saved"
    /\ advanced_mode' = TRUE
    /\ ie_pc' = [ie_pc EXCEPT ![t] = "try"]
    /\ UNCHANGED <<ie_mode0, ie_original, ie_exit, pagedVars, jqlVars, rfsVars, pairVars,
                   treeVars, bulkVars>>

\* the try block: the request, the test for 404 and resp.raise_for_status()
IssueExistsTry(t) ==
    /\ ie_pc # <<>>
    /\ ie_pc[t] = "try"
    /\ \E out \in IssueOutcomes : ie_exit' = [ie_exit EXCEPT ![t] = ExitOf(out)]
    /\ ie_pc' = [ie_pc EXCEPT ![t] = "finally"]
    /\ UNCHANGED <<advanced_mode, ie_mode0, ie_original, pagedVars, jqlVars, rfsVars, pairVars,
                   treeVars, bulkVars>>

\* finally: self.advanced_mode = original_value, and the call is left
IssueExistsFinally(t) ==
    /\ ie_pc # <<>>
    /\ ie_pc[t] = "finally"
    /\ advanced_mode' = ie_original[t]
    /\ ie_pc' = [ie_pc EXCEPT ![t] = "ended"]
    /\ UNCHANGED <<ie_mode0, ie_original, ie_exit, pagedVars, jqlVars, rfsVars, pairVars,
                   treeVars, bulkVars>>

InitExists ==
    /\ advanced_mode \in BOOLEAN
    /\ ie_mode0 = advanced_mode
    /\ ie_pc = [t \in Threads |-> "idle"]
    /\ ie_original = [t \in Threads |-> FALSE]
    /\ ie_exit = [t \in Threads |-> "none"]
    /\ PagedUnused
    /\ JqlUnused
    /\ RfsUnused
    /\ PairUnused
    /\ TreeUnused
    /\ BulkUnused

NextExists ==
    \E t \in Threads :
        \/ IssueExistsSave(t)
        \/ IssueExistsSet(t)
        \/ IssueExistsTry(t)
        \/ IssueExistsFinally(t)

SpecExists == InitExists /\ [][NextExists]_vars

----------------------------------------------------------------------------
(* Jira.get_issue_tree_recursive: the nested calls are a stack of frames,    *)
(* each with the issue it fetched, the position of its for loops and its     *)
(* depth; all frames share the list tree.                                    *)

MaxLinks == 1        \* an issue has at most MaxLinks issue links
MaxSubtasks == 1     \* an issue has at most MaxSubtasks subtasks

RecursionLimit == 150    \* if depth > 150

IssueKeys == {"A", "B"}

RootKey == "A"       \* argument issue_key of the outermost call

\* an issue link is given by the key of its inwardIssue, Null when it has
\* none; a subtask by its key, Null when it has none
Issues ==
    [issuelinks : SeqsUpTo(IssueKeys \cup {Null}, MaxLinks),
     subtasks : SeqsUpTo(IssueKeys \cup {Null}, MaxSubtasks)]

\* the keys the two for loops of a call on issue k go through, in order
ChildrenOf(k) == gt_graph[k].issuelinks \o gt_graph[k].subtasks

\* InTree that looks for the key among the children of the entries
InTree_Values(tree, k) == \E n \in 1..Len(tree) : tree[n][2] = k

\* [x for x in tree if k in list(x.keys())] is not empty: an entry
\* {parent: child} of tree has k as its parent
InTree(tree, k) == \E n \in 1..Len(tree) : tree[n][1] = k

\* a call get_issue_tree_recursive(k, tree, depth) from its first line to
\* its first for loop: it raises, or fetches the issue, and get_issue may raise
TreeEnter(k, depth) ==
    IF depth > RecursionLimit
    THEN /\ gt_pc' = "raised"
         /\ gt_error' = "Recursion depth exceeded"
         /\ UNCHANGED <<gt_stack, gt_calls>>
    ELSE /\ gt_calls' = Append(gt_calls, k)
         /\ \E ok \in BOOLEAN :
              IF ok
              THEN /\ gt_pc' = "running"
                   /\ gt_stack' = Append(gt_stack, [key |-> k, i |-> 0, depth |-> depth])
                   /\ UNCHANGED gt_error
              ELSE /\ gt_pc' = "raised"
                   /\ gt_error' = "HTTPError"
                   /\ UNCHANGED gt_stack

\* the outermost call, with tree = None
TreeCall ==
    /\ gt_pc = "idle"
    /\ gt_tree' = <<>>
    /\ TreeEnter(RootKey, gt_depth0)
    /\ UNCHANGED <<gt_graph, gt_depth0, pagedVars, jqlVars, rfsVars, pairVars, existsVars,
                   bulkVars>>

\* the innermost call takes the next link or subtask: one without a key, or
\* with a key that is a parent in tree, is passed over
TreeSkip ==
    /\ gt_pc = "running"
    /\ LET f == gt_stack[Len(gt_stack)]
           ch == ChildrenOf(f.key)
       IN /\ f.i < Len(ch)
          /\ ch[f.i + 1] = Null \/ InTree(gt_tree, ch[f.i + 1])
          /\ gt_stack' = [gt_stack EXCEPT ![Len(gt_stack)].i = f.i + 1]
    /\ UNCHANGED <<gt_graph, gt_depth0, gt_pc, gt_tree, gt_error, gt_calls, pagedVars,
                   jqlVars, rfsVars, pairVars, existsVars, bulkVars>>

\* the innermost call takes the next link or subtask, appends
\* {parent: child} to tree and calls itself for the child
TreeDescend ==
    /\ gt_pc = "running"
    /\ LET f == gt_stack[Len(gt_stack)]
           ch == ChildrenOf(f.key)
       IN /\ f.i < Len(ch)
          /\ ch[f.i + 1] # Null
          /\ ~InTree(gt_tree, ch[f.i + 1])
          /\ gt_tree' = Append(gt_tree, <<f.key, ch[f.i + 1]>>)
          /\ IF f.depth + 1 > RecursionLimit
             THEN /\ gt_pc' = "raised"
                  /\ gt_error' = "Recursion depth exceeded"
                  /\ gt_stack' = [gt_stack EXCEPT ![Len(gt_stack)].i = f.i + 1]
                  /\ UNCHANGED gt_calls
             ELSE /\ gt_calls' = Append(gt_calls, ch[f.i + 1])
                  /\ \E ok \in BOOLEAN :
                       IF ok
                       THEN /\ gt_pc' = "running"
                            /\ gt_stack' =
                                  Append([gt_stack EXCEPT ![Len(gt_stack)].i = f.i + 1],
                                         [key |-> ch[f.i + 1], i |-> 0, depth |-> f.depth + 1])
                            /\ UNCHANGED gt_error
                       ELSE /\ gt_pc' = "raised"
                            /\ gt_error' = "HTTPError"
                            /\ gt_stack' = [gt_stack EXCEPT ![Len(gt_stack)].i = f.i + 1]
    /\ UNCHANGED <<gt_graph, gt_depth0, pagedVars, jqlVars, rfsVars, pairVars, existsVars,
                   bulkVars>>

\* the innermost call is through with its for loops: return tree
TreeReturn ==
    /\ gt_pc = "running"
    /\ LET f == gt_stack[Len(gt_stack)]
       IN f.i = Len(ChildrenOf(f.key))
    /\ gt_stack' = SubSeq(gt_stack, 1, Len(gt_stack) - 1)
    /\ gt_pc' = IF Len(gt_stack) = 1 THEN "returned" ELSE "running"
    /\ UNCHANGED <<gt_graph, gt_depth0, gt_tree, gt_error, gt_calls, pagedVars, jqlVars,
                   rfsVars, pairVars, existsVars, bulkVars>>

InitTree ==
    /\ gt_graph \in [IssueKeys -> Issues]
    /\ gt_depth0 \in {0, RecursionLimit - 1, RecursionLimit, RecursionLimit + 1}
    /\ gt_pc = "idle"
    /\ gt_stack = <<>>
    /\ gt_tree = <<>>
    /\ gt_error = "none"
    /\ gt_calls = <<>>
    /\ PagedUnused
    /\ JqlUnused
    /\ RfsUnused
    /\ PairUnused
    /\ ExistsUnused
    /\ BulkUnused

NextTree ==
    \/ TreeCall
    \/ TreeSkip
    \/ TreeDescend
    \/ TreeReturn

\* the calls run on: nothing stops a call that has a step to take
SpecTree == InitTree /\ [][NextTree]_vars /\ WF_vars(NextTree)

----------------------------------------------------------------------------
(* Jira.bulk_update_issue_field *)

MaxKeys == 3         \* key_list has at most MaxKeys keys

\* f"{base_url}/{key}" with base_url = self.resource_url("issue")
IssueUrl(key) == "issue/" \o key

\* what self.put may do: return, raise on the answer of the server, or raise
\* on the connection, where the server has or has not applied the update
PutOutcomes ==
    {[ok |-> TRUE, error |-> "none", applied |-> TRUE],
     [ok |-> FALSE, error |-> "HTTPError", applied |-> FALSE],
     [ok |-> FALSE, error |-> "ConnectionError", applied |-> FALSE],
     [ok |-> FALSE, error |-> "ConnectionError", applied |-> TRUE]}

\* the call, up to the for loop
BulkCall ==
    /\ bu_pc = "idle"
    /\ bu_pc' = "running"
    /\ bu_i' = 0
    /\ UNCHANGED <<bu_keys, bu_puts, bu_applied, bu_log, bu_result, pagedVars, jqlVars,
                   rfsVars, pairVars, existsVars, treeVars>>

\* BulkPut with the try inside the loop: after a failure the next key is taken
BulkPut_Continue ==
    /\ bu_pc = "running"
    /\ bu_i < Len(bu_keys)
    /\ \E out \in PutOutcomes :
         /\ bu_puts' = Append(bu_puts, [url |-> IssueUrl(bu_keys[bu_i + 1]), ok |-> out.ok])
         /\ bu_applied' = IF out.applied THEN Append(bu_applied, bu_keys[bu_i + 1])
                                         ELSE bu_applied
         /\ bu_i' = bu_i + 1
         /\ bu_log' = IF out.ok THEN bu_log ELSE Append(bu_log, out.error)
         /\ bu_result' = IF out.ok THEN bu_result ELSE "False"
         /\ UNCHANGED bu_pc
    /\ UNCHANGED <<bu_keys, pagedVars, jqlVars, rfsVars, pairVars, existsVars, treeVars>>

\* one pass of the for loop: the PUT for the next key; when it raises, the
\* except clause logs the exception and returns False
BulkPut ==
    /\ bu_pc = "running"
    /\ bu_i < Len(bu_keys)
    /\ \E out \in PutOutcomes :
         /\ bu_puts' = Append(bu_puts, [url |-> IssueUrl(bu_keys[bu_i + 1]), ok |-> out.ok])
         /\ bu_applied' = IF out.applied THEN Append(bu_applied, bu_keys[bu_i + 1])
                                         ELSE bu_applied
         /\ bu_i' = bu_i + 1
         /\ IF out.ok
            THEN UNCHANGED <<bu_pc, bu_log, bu_result>>
            ELSE /\ bu_log' = Append(bu_log, out.error)
                 /\ bu_result' = "False"
                 /\ bu_pc' = "returned"
    /\ UNCHANGED <<bu_keys, pagedVars, jqlVars, rfsVars, pairVars, existsVars, treeVars>>

\* the for loop is through: return True
BulkReturn ==
    /\ bu_pc = "running"
    /\ bu_i = Len(bu_keys)
    /\ bu_pc' = "returned"
    /\ bu_result' = "True"
    /\ UNCHANGED <<bu_keys, bu_i, bu_puts, bu_applied, bu_log, pagedVars, jqlVars, rfsVars,
                   pairVars, existsVars, treeVars>>

InitBulk ==
    /\ bu_keys \in SeqsUpTo(IssueKeys, MaxKeys)
    /\ bu_pc = "idle"
    /\ bu_i = 0
    /\ bu_puts = <<>>
    /\ bu_applied = <<>>
    /\ bu_log = <<>>
    /\ bu_result = "none"
    /\ PagedUnused
    /\ JqlUnused
    /\ RfsUnused
    /\ PairUnused
    /\ ExistsUnused
    /\ TreeUnused

NextBulk ==
    \/ BulkCall
    \/ BulkPut
    \/ BulkReturn

SpecBulk == InitBulk /\ [][NextBulk]_vars

----------------------------------------------------------------------------
(* Properties *)

GenStyle == style \in {"link", "offset"}

\* the params the first request carries when the caller's mapping is not changed
ArgParams == IF args.paramsGiven THEN args.params ELSE EmptyDict

ItemsOf(page) == Get(page, "values", <<>>)

IsPrefix(s, t) == Len(s) <= Len(t) /\ s = SubSeq(t, 1, Len(s))

\* C1: when the page served last has an empty item array, the paged fetch
\* (link based or offset based) has ended normally and has yielded exactly
\* the concatenation, in order, of the items of the pages served before it;
\* until then the items yielded are a prefix of that concatenation.
C1_YieldsConcatenation ==
    GenStyle =>
        /\ IsPrefix(yielded, Concat(responses, "values"))
        /\ (responses # <<>> /\ Len(values) = 0) =>
              /\ pc = "done"
              /\ yielded = Concat(responses, "values")
              /\ Len(requests) = Len(responses)

C1_Witness ==
    /\ GenStyle
    /\ pc = "done"
    /\ Len(responses) = 3
    /\ Len(values) = 0
    /\ Len(ItemsOf(responses[1])) = 2
    /\ Len(yielded) >= 3

\* C2: link based fetch without workaround: request 1 carries the caller's
\* url, params and flags, request k+1 targets the `next` of response k with
\* absolute=True and empty params; when the fetch has ended, one request was
\* issued per page served and the items of all pages were yielded.
C2_LinkRequests ==
    (style = "link" /\ ~paging_workaround) =>
        /\ requests # <<>> =>
              requests[1] = Request(args.url, ArgParams, args.absolute, args.trailing)
        /\ \A k \in 1..(Len(requests) - 1) :
              /\ Get(responses[k], "next", Null) # Null
              /\ requests[k + 1].url = responses[k]["next"]
              /\ requests[k + 1].absolute = TRUE
              /\ requests[k + 1].params = EmptyDict
        /\ pc = "done" =>
              /\ Len(requests) = Len(responses)
              /\ yielded = Concat(responses, "values")
              /\ Len(values) = 0 \/ Get(response, "next", Null) = Null

C2_Witness ==
    /\ style = "link"
    /\ ~paging_workaround
    /\ pc = "done"
    /\ Len(responses) = 3
    /\ Len(ItemsOf(responses[1])) = 2 /\ Get(responses[1], "next", Null) = "U1"
    /\ Len(ItemsOf(responses[2])) = 1 /\ Get(responses[2], "next", Null) = "U2"
    /\ responses[3] = ("values" :> <<>> @@ "next" :> Null)
    /\ Len(requests) = 3
    /\ requests[2].url = "U1"
    /\ requests[3].url = "U2"
    /\ Len(yielded) = 3

\* C3: without workaround, in both generators every request after the first
\* is issued with absolute=True, empty params and trailing=False; the absolute
\* flag never goes back to False, and a fetch started with absolute=True keeps it.
C3_AbsoluteCarried ==
    (GenStyle /\ ~paging_workaround) =>
        /\ \A k \in 2..Len(requests) :
              /\ requests[k].absolute = TRUE
              /\ requests[k].params = EmptyDict
              /\ requests[k].trailing = "False"
        /\ \A j \in 1..Len(requests) : \A k \in j..Len(requests) :
              requests[j].absolute => requests[k].absolute
        /\ Len(requests) >= 2 => absolute
        /\ args.absolute => (absolute /\ \A k \in 1..Len(requests) : requests[k].absolute)

C3_Witness ==
    /\ style = "offset"
    /\ Len(requests) = 3
    /\ args.paramsGiven
    /\ ~args.absolute
    /\ args.trailing = "True"
    /\ requests[3].absolute

\* C4: with paging_workaround the k-th request carries page = k and otherwise
\* the caller's url, params and flags, whatever `next` the pages carry; the
\* fetch ends exactly when a page with an empty item array was served.
C4_Workaround ==
    (style = "link" /\ paging_workaround) =>
        /\ \A k \in 1..Len(requests) :
              requests[k] = Request(args.url, Put(ArgParams, "page", k),
                                    args.absolute, args.trailing)
        /\ pc = "done" <=> (responses # <<>> /\ Len(values) = 0)
        /\ pc = "done" =>
              /\ Len(requests) = Len(responses)
              /\ yielded = Concat(responses, "values")

C4_Witness ==
    /\ style = "link"
    /\ paging_workaround
    /\ pc = "done"
    /\ args.paramsGiven /\ "page" \in DOMAIN args.params
    /\ Len(requests) = 3
    /\ Len(ItemsOf(responses[1])) = 2 /\ Get(responses[1], "next", Null) = Null
    /\ Len(ItemsOf(responses[2])) = 2 /\ Get(responses[2], "next", Null) = "U1"
    /\ requests[3].params["page"] = 3
    /\ Len(yielded) = 4

\* C5: a page with an empty or missing item array ends the link based or
\* offset based fetch normally, also when it carries a continuation url: no
\* request follows it and nothing but the items of the earlier pages is yielded.
C5_EmptyPageTerminal ==
    GenStyle =>
        \A k \in 1..Len(responses) :
            Len(ItemsOf(responses[k])) = 0 =>
                /\ Len(requests) = k
                /\ pc = "done"
                /\ raised = "none"
                /\ yielded = Concat(SubSeq(responses, 1, k - 1), "values")

C5_Witness ==
    /\ GenStyle
    /\ Len(responses) = 2
    /\ Len(values) = 0
    /\ Get(response, IF style = "link" THEN "next" ELSE "nextPage", Null) \in URLs
    /\ pc = "done"
    /\ demanded >= Len(yielded) + 2

\* C6: in Jira._get_paged no request follows a page with isLast = true,
\* whether or not it carries nextPage; its items are yielded and the fetch
\* then ends normally.
C6_IsLastTerminal ==
    style = "offset" =>
        \A k \in 1..Len(responses) :
            Get(responses[k], "isLast", FALSE) =>
                /\ Len(requests) = k
                /\ pc \in {"suspended", "done"}
                /\ pc = "suspended" => idx >= 1
                /\ pc = "done" => yielded = Concat(responses, "values")
                /\ demanded > Len(Concat(responses, "values")) => pc = "done"

C6_Witness ==
    /\ style = "offset"
    /\ Len(responses) = 1
    /\ Get(response, "isLast", FALSE)
    /\ Get(response, "nextPage", Null) \in URLs
    /\ Len(values) = 1
    /\ yielded = values
    /\ pc = "done"
    /\ Len(requests) = 1
    /\ demanded >= 3

\* C7: in enhanced_jql_get_list_of_tickets request 1 carries no nextPageToken,
\* request k+1 is request 1 with nextPageToken set to the token of response k,
\* and the list returned is the concatenation of the issues of all responses.
C7_TokenRequests ==
    style = "token" =>
        /\ requests # <<>> =>
              /\ requests[1] = Request(SearchJqlUrl, SearchParams(Null, limit, expand),
                                       FALSE, "None")
              /\ "nextPageToken" \notin DOMAIN requests[1].params
        /\ \A k \in 1..(Len(requests) - 1) :
              /\ ~Falsy(Get(responses[k], "nextPageToken", Null))
              /\ requests[k + 1] = [requests[1] EXCEPT !.params =
                      Put(@, "nextPageToken", responses[k]["nextPageToken"])]
        /\ pc = "done" =>
              /\ results = Concat(responses, "issues")
              /\ Len(requests) = Len(responses)

C7_Witness ==
    /\ style = "token"
    /\ pc = "done"
    /\ Len(requests) = 2
    /\ Get(responses[1], "nextPageToken", Null) = "T1"
    /\ Get(responses[2], "nextPageToken", "absent") = Null
    /\ requests[2].params["nextPageToken"] = "T1"
    /\ results = <<"a", "b">>

\* C8 as stated: in each of the three pagination styles no request is issued
\* before the consumer has demanded the first item.
C8_LazyInEveryStyle ==
    style \in {"link", "offset", "token"} => (requests # <<>> => demanded > 0)

\* C8 amended: creating a link based or offset based sequence issues no
\* request, the first one is issued when the first item is demanded; the token
\* based method has issued all its requests when the caller gets the first issue.
C8_LazyGenerators ==
    /\ GenStyle =>
          /\ pc \in {"idle", "created"} => requests = <<>>
          /\ requests # <<>> => demanded > 0
    /\ style = "token" => (demanded > 0 => pc = "done")

C8_Witness ==
    /\ GenStyle
    /\ pc = "created"
    /\ requests = <<>>
    /\ demanded = 0

\* C9: when the transport raises on a request of a link based or offset based
\* fetch, that error leaves the generator in the next() that demanded the
\* first item of the page, no request follows, the generator does not end
\* normally, and the items of the pages before stay yielded.
C9_ErrorPropagates ==
    GenStyle =>
        /\ thrown # "none" =>
              /\ pc = "raised"
              /\ raised = thrown
              /\ Len(requests) = Len(responses) + 1
              /\ yielded = Concat(responses, "values")
              /\ demanded > Len(yielded)
        /\ Len(requests) > Len(responses) => thrown \in TransportErrors

C9_Witness ==
    /\ GenStyle
    /\ thrown \in TransportErrors
    /\ raised = thrown
    /\ Len(requests) = 2
    /\ Len(yielded) >= 1
    /\ demanded >= Len(yielded) + 2

\* C10: on a client that is not Jira Cloud the token based methods raise
\* ValueError and no request is ever issued.
C10_NonCloudFailsFast ==
    (style \in {"token", "enhanced"} /\ ~cloud) =>
        /\ requests = <<>>
        /\ pc # "idle" => (pc = "raised" /\ raised = "ValueError")

C10_Witness ==
    /\ style \in {"token", "enhanced"}
    /\ ~cloud
    /\ pc = "raised"
    /\ raised = "ValueError"
    /\ requests = <<>>

----------------------------------------------------------------------------
(* Properties of raise_for_status *)

\* the body decodes to an object whose error is an object with a message
HasMessage(b) ==
    /\ b.t = "obj"
    /\ "error" \in DOMAIN b.v
    /\ b.v["error"].t = "obj"
    /\ "message" \in DOMAIN b.v["error"].v

\* C11: for a status in [400,600) and a body with error.message M, the error
\* raised is an HTTPError with the response attached whose message is M, a
\* newline and D when error.detail is a non-empty string D, and M when there
\* is no detail.
C11_NormalizedMessage ==
    (rfs_pc # "idle" /\ 400 <= status_code /\ status_code < 600 /\ HasMessage(body)) =>
        LET e == body.v["error"].v
        IN /\ rfs_pc = "raised"
           /\ ("detail" \in DOMAIN e /\ e["detail"].t = "str" /\ e["detail"].v # "") =>
                 rfs_error = [kind |-> "HTTPError", origin |-> "raise_for_status",
                              message |-> JStr(e["message"].v \o "\n" \o e["detail"].v),
                              response |-> status_code]
           /\ "detail" \notin DOMAIN e =>
                 rfs_error = [kind |-> "HTTPError", origin |-> "raise_for_status",
                              message |-> e["message"], response |-> status_code]

C11_Witness ==
    /\ status_code = 400
    /\ body = JObj("error" :> JObj("message" :> JStr("Bad") @@ "detail" :> JStr("extra")))
    /\ rfs_pc = "raised"
    /\ rfs_error.message = JStr("Bad\nextra")
    /\ rfs_error.response = 400

\* C12: for a status in [400,600) and a body from which error.message cannot
\* be taken, the failure is logged and the error raised is the one of the
\* transport's response.raise_for_status(), never the decoding error.
C12_FallbackOnParseFailure ==
    (rfs_pc # "idle" /\ 400 <= status_code /\ status_code < 600 /\ ~HasMessage(body)) =>
        /\ rfs_pc = "raised"
        /\ Len(rfs_log) = 1
        /\ rfs_log[1] \in {"JSONDecodeError", "KeyError", "TypeError"}
        /\ transport_calls = 1
        /\ rfs_error = [kind |-> "HTTPError", origin |-> "response", response |-> status_code]

C12_Witness ==
    /\ status_code = 500
    /\ body = NotJson
    /\ rfs_pc = "raised"
    /\ rfs_log = <<"JSONDecodeError">>

\* C13: for a status outside [400,600) the body is never decoded, nothing is
\* logged, response.raise_for_status() is called once and its outcome is the
\* outcome of the method.
C13_DelegatesOutsideRange ==
    (rfs_pc # "idle" /\ ~(400 <= status_code /\ status_code < 600)) =>
        /\ json_calls = 0
        /\ rfs_log = <<>>
        /\ transport_calls = 1
        /\ rfs_pc = (IF TransportRaises(status_code) THEN "raised" ELSE "returned")
        /\ rfs_error = (IF TransportRaises(status_code) THEN TransportError(status_code)
                                                         ELSE NoError)

C13_Witness ==
    /\ status_code = 200
    /\ HasMessage(body)
    /\ rfs_pc = "returned"
    /\ transport_calls = 1

\* C14: for a status in [400,600) the method never returns: it raises the
\* normalized HTTPError, without a call of the fallback, exactly when
\* error.message can be taken from the body, and the transport's HTTPError
\* otherwise.
C14_TwoTierOutcome ==
    (rfs_pc # "idle" /\ 400 <= status_code /\ status_code < 600) =>
        /\ rfs_pc = "raised"
        /\ rfs_error.kind = "HTTPError"
        /\ \/ /\ HasMessage(body)
              /\ rfs_error.origin = "raise_for_status"
              /\ transport_calls = 0
              /\ rfs_log = <<>>
           \/ /\ ~HasMessage(body)
              /\ rfs_error.origin = "response"
              /\ transport_calls = 1
              /\ Len(rfs_log) = 1

C14_Witness ==
    /\ status_code = 404
    /\ body = JObj("error" :> JObj(EmptyDict))
    /\ rfs_pc = "raised"
    /\ rfs_error.origin = "response"

\* C15: raise_for_status raises for every status >= 400, 600 and above
\* included, and raises nothing for a status below 400.
C15_RaisesFrom400 ==
    rfs_pc # "idle" => (rfs_pc = "raised" <=> status_code >= 400)

----------------------------------------------------------------------------
(* Further properties of the paged fetches *)

IssuesOf(page) == Get(page, "issues", <<>>)

\* C16: in enhanced_jql_get_list_of_tickets no request follows a response
\* with an empty issues array, also when it carries a nextPageToken.
C16_EmptyIssuesTerminal ==
    style = "token" =>
        \A k \in 1..Len(responses) :
            (responses[k] # EmptyDict /\ Len(IssuesOf(responses[k])) = 0) => Len(requests) = k

\* C17: with a limit, when every page holds at most limit issues, the list
\* returned by enhanced_jql_get_list_of_tickets has at most limit issues, and
\* no request is issued once limit issues are collected.
C17_AtMostLimit ==
    (style = "token" /\ limit # NoLimit
       /\ \A k \in 1..Len(responses) : Len(IssuesOf(responses[k])) <= limit) =>
        /\ pc = "done" => Len(results) <= limit
        /\ \A k \in 1..(Len(requests) - 1) :
              Len(Concat(SubSeq(responses, 1, k), "issues")) < limit

\* C19 as stated: Jira._get_paged on a client with cloud = false issues its
\* first request and yields that page's items; when it fails because of the
\* platform flag, no request was issued.
C19_OffsetOnServer ==
    style = "offset" =>
        /\ (~cloud /\ demanded > 0) => (Len(requests) >= 1 /\ raised # "ValueError")
        /\ raised = "ValueError" => requests = <<>>

\* C19 amended: Jira._get_paged works on Jira Cloud only: with cloud = false
\* the first next() raises ValueError, no request is issued and nothing is
\* yielded; with cloud = true the first next() issues the first request and
\* yields the first item of that page.
C19_OffsetOnCloudOnly ==
    style = "offset" =>
        /\ ~cloud =>
              /\ requests = <<>>
              /\ yielded = <<>>
              /\ demanded > 0 => (pc = "raised" /\ raised = "ValueError")
        /\ (cloud /\ demanded > 0) =>
              /\ Len(requests) >= 1
              /\ raised # "ValueError"
              /\ (responses # <<>> /\ Len(ItemsOf(responses[1])) > 0) =>
                    (yielded # <<>> /\ yielded[1] = ItemsOf(responses[1])[1])
        /\ raised = "ValueError" => requests = <<>>

C19_Witness ==
    /\ style = "offset"
    /\ ~cloud
    /\ demanded >= 1
    /\ pc = "raised"
    /\ raised = "ValueError"
    /\ requests = <<>>

\* the pages all of whose items were handed to the consumer
PagesConsumed ==
    {k \in 1..Len(responses) :
        Len(yielded) >= Len(Concat(SubSeq(responses, 1, k), "values"))}

\* C20: in both generators a request is issued only in a step in which the
\* consumer demands an item, and only when every item of the pages served so
\* far was handed over; so the requests issued are at most one more than the
\* pages consumed, and without demand no request is issued.
C20_PageByPage ==
    /\ [](GenStyle => Len(requests) <= 1 + Cardinality(PagesConsumed))
    /\ [][GenStyle =>
            (requests' # requests =>
                /\ demanded' = demanded + 1
                /\ Len(requests') = Len(requests) + 1
                /\ Len(requests) = Len(responses)
                /\ yielded = Concat(responses, "values"))]_vars

C20_Witness ==
    /\ GenStyle
    /\ pc = "suspended"
    /\ Len(requests) = 2
    /\ Len(ItemsOf(responses[1])) = 2
    /\ Len(yielded) = 3
    /\ demanded = 3

\* C18: on a cloud client jql and jql_get_list_of_tickets raise ValueError
\* without a request when start is not 0; with start 0 their requests are
\* those of enhanced_jql and enhanced_jql_get_list_of_tickets (the search/jql
\* resource, token based) and carry no startAt; on a client that is not cloud
\* they never use the token based resource.
C18_JqlOnCloud ==
    style \in {"jql", "jql_list"} =>
        /\ (cloud /\ args.start # 0) =>
              /\ requests = <<>>
              /\ pc # "idle" => (pc = "raised" /\ raised = "ValueError")
        /\ (cloud /\ args.start = 0) =>
              /\ pc # "idle" => raised # "ValueError"
              /\ requests # <<>> =>
                    requests[1] = Request(SearchJqlUrl, SearchParams(Null, limit, expand),
                                          FALSE, "None")
              /\ style = "jql" => Len(requests) <= 1
              /\ \A k \in 1..(Len(requests) - 1) :
                    /\ ~Falsy(Get(responses[k], "nextPageToken", Null))
                    /\ requests[k + 1] = [requests[1] EXCEPT !.params =
                            Put(@, "nextPageToken", responses[k]["nextPageToken"])]
              /\ \A k \in 1..Len(requests) : "startAt" \notin DOMAIN requests[k].params
              /\ (style = "jql_list" /\ pc = "done") => results = Concat(responses, "issues")
        /\ ~cloud =>
              \A k \in 1..Len(requests) :
                  /\ requests[k].url = SearchUrl
                  /\ "nextPageToken" \notin DOMAIN requests[k].params

C18_Witness ==
    /\ style = "jql_list"
    /\ cloud
    /\ args.start = 0
    /\ validate_query = "strict"
    /\ pc = "done"
    /\ Len(requests) = 2
    /\ requests[2].params["nextPageToken"] = "T1"

----------------------------------------------------------------------------
(* The caller's params mapping *)

\* C22: after any number of pages fetched by either generator, the mapping
\* object the caller passed as params has the keys and values it had before
\* the call.
C22_CallerParamsUntouched ==
    (GenStyle /\ args.paramsGiven) => callerParams = args.params

\* next() calls that end a fetch of this model run alone
PairFuel == (MaxPairPages + 3) * (MaxItems + 1)

RECURSIVE PairAlone(_, _, _)
\* generator g consumed to its end with no other fetch around
PairAlone(g, d, fuel) ==
    IF fuel = 0 \/ g.pc = "done" THEN g
    ELSE LET r == PairNextOf(g, d) IN PairAlone(r.gen, r.dict, fuel - 1)

\* call i of the caller, consumed alone against the same server
AloneRun(i) ==
    PairAlone([pc |-> "created", url |-> pair_args.url,
               paramsRef |-> IF pair_args.paramsGiven THEN "caller" ELSE "None",
               ownParams |-> EmptyDict, absolute |-> pair_args.absolute,
               trailing |-> pair_args.trailing, idx |-> 0, requests |-> <<>>,
               responses |-> <<>>, yielded |-> <<>>],
              pair_args.params, PairFuel)

\* C21: of two link based fetches consumed in any interleaving, also two
\* created with the workaround from the same params mapping, each issues the
\* requests and yields the items it issues and yields when consumed alone.
C21_FetchesIndependent ==
    \A i \in DOMAIN pair_gen :
        LET g == pair_gen[i]
            alone == AloneRun(i)
        IN /\ IsPrefix(g.requests, alone.requests)
           /\ IsPrefix(g.yielded, alone.yielded)
           /\ g.pc = "done" => (g.requests = alone.requests /\ g.yielded = alone.yielded)

----------------------------------------------------------------------------
(* The detail of the error body *)

\* the values of error.detail that Python takes as false
FalsyDetails == {JStr(""), JNull, JNum(0), JList(<<>>)}

\* C23 as stated: for a status in [400,600) and a body with error.message,
\* whenever the key error.detail is present, whatever its value, the message
\* of the error raised is error.message, a newline and the detail.
C23_AnyDetailAppended ==
    (rfs_pc # "idle" /\ 400 <= status_code /\ status_code < 600 /\ HasMessage(body)) =>
        LET e == body.v["error"].v
        IN "detail" \in DOMAIN e =>
              /\ rfs_pc = "raised"
              /\ rfs_error.message = JStr(Str(e["message"]) \o "\n" \o Str(e["detail"]))

\* C23 amended: the detail is appended after a newline when its value is
\* taken as true by Python (a non-empty string or list, a number other than
\* 0); when it is an empty string, null, 0 or an empty list the message of
\* the error raised is error.message alone.
C23_TruthyDetailAppended ==
    (rfs_pc # "idle" /\ 400 <= status_code /\ status_code < 600 /\ HasMessage(body)) =>
        LET e == body.v["error"].v
        IN "detail" \in DOMAIN e =>
              /\ rfs_pc = "raised"
              /\ rfs_error.kind = "HTTPError"
              /\ rfs_error.origin = "raise_for_status"
              /\ e["detail"] \notin FalsyDetails =>
                    rfs_error.message = JStr(Str(e["message"]) \o "\n" \o Str(e["detail"]))
              /\ e["detail"] \in FalsyDetails => rfs_error.message = e["message"]

C23_Witness ==
    /\ status_code = 400
    /\ body = JObj("error" :> JObj("message" :> JStr("Bad") @@ "detail" :> JStr("")))
    /\ rfs_pc = "raised"
    /\ rfs_error.message = JStr("Bad")

----------------------------------------------------------------------------
(* Continuation of the offset based and token based fetches *)

\* a page after which Jira._get_paged goes on: it has items and isLast is
\* false or absent
GoesOn(page) == Len(ItemsOf(page)) > 0 /\ ~Get(page, "isLast", FALSE)

\* C24: after a page with items and isLast false or absent, Jira._get_paged
\* requests the url given as nextPage when the consumer demands a further
\* item, and ends normally without a request when nextPage is absent or
\* null; no request is ever issued with a null url.
C24_OffsetContinuation ==
    style = "offset" =>
        /\ \A k \in 1..Len(requests) : requests[k].url # Null
        /\ \A k \in 1..Len(responses) :
              LET page == responses[k]
                  served == Len(Concat(SubSeq(responses, 1, k), "values"))
              IN GoesOn(page) =>
                    IF Get(page, "nextPage", Null) # Null
                    THEN /\ Len(requests) > k => requests[k + 1].url = page["nextPage"]
                         /\ demanded > served => Len(requests) > k
                    ELSE /\ Len(requests) = k
                         /\ raised = "none"
                         /\ pc \in {"suspended", "done"}
                         /\ demanded > served => pc = "done"

C24_Witness ==
    /\ style = "offset"
    /\ Len(responses) = 2
    /\ GoesOn(responses[1])
    /\ "isLast" \notin DOMAIN responses[1]
    /\ requests[2].url = "U2"
    /\ DOMAIN responses[2] = {"values"}
    /\ Len(ItemsOf(responses[2])) = 1
    /\ pc = "done"
    /\ demanded > Len(yielded)

\* a response after which the token based loop has nothing to go on with
NoToken(page) == page = EmptyDict \/ Get(page, "nextPageToken", Null) \in {Null, ""}

\* C25: enhanced_jql_get_list_of_tickets issues no request after a response
\* that is empty or whose nextPageToken is absent, null or the empty string,
\* and then returns; no request carries a null or empty nextPageToken; the
\* list returned is the concatenation, in order, of the issues of all
\* responses received, those of the last response included.
C25_TokenTermination ==
    style = "token" =>
        /\ \A k \in 1..Len(responses) :
              NoToken(responses[k]) =>
                  /\ Len(requests) = k
                  /\ pc = "done"
                  /\ raised = "none"
        /\ \A k \in 1..Len(requests) :
              "nextPageToken" \in DOMAIN requests[k].params =>
                  requests[k].params["nextPageToken"] \notin {Null, ""}
        /\ pc = "done" =>
              /\ results = Concat(responses, "issues")
              /\ Len(requests) = Len(responses)

C25_Witness ==
    /\ style = "token"
    /\ Len(responses) = 2
    /\ Get(responses[1], "nextPageToken", Null) = "T2"
    /\ Get(responses[2], "nextPageToken", Null) = ""
    /\ IssuesOf(responses[2]) = <<"b">>
    /\ pc = "done"
    /\ results = IssuesOf(responses[1]) \o <<"b">>
    /\ requests[2].params["nextPageToken"] = "T2"

----------------------------------------------------------------------------
(* Jira.jql_get_list_of_tickets on Jira Server *)

\* the startAt parameter of request k
StartAt(k) == requests[k].params["startAt"]

\* a response after which the loop of jql_get_list_of_tickets is left when
\* no limit is given: an empty body, or total reached
SearchEnd(k) ==
    \/ responses[k] = EmptyDict
    \/ responses[k]["total"] <= StartAt(k) + Len(IssuesOf(responses[k]))

\* C26: on Jira Server, with a limit jql_get_list_of_tickets issues one
\* request and returns its issues; without a limit request 1 carries
\* startAt = start, request k+1 carries the startAt of request k plus the
\* number of issues of response k, no request follows the first response
\* that is empty or has total <= startAt + number of issues, the list
\* returned is the concatenation of the issues of all responses, and the
\* index ranges fetched do not overlap.
C26_StartAtAccounting ==
    (style = "jql_list" /\ ~cloud) =>
        /\ requests # <<>> =>
              requests[1] = Request(SearchUrl,
                                    Put(ClassicParams(limit, expand, validate_query),
                                        "startAt", args.start),
                                    FALSE, "None")
        /\ limit # NoLimit =>
              /\ Len(requests) <= 1
              /\ pc = "done" => (Len(requests) = 1 /\ results = IssuesOf(responses[1]))
        /\ \A k \in 1..(Len(requests) - 1) :
              requests[k + 1] = [requests[k] EXCEPT !.params =
                    Put(@, "startAt", StartAt(k) + Len(IssuesOf(responses[k])))]
        /\ \A k \in 1..Len(responses) :
              SearchEnd(k) => (Len(requests) = k /\ pc = "done" /\ raised = "none")
        /\ pc = "done" =>
              /\ results = Concat(responses, "issues")
              /\ Len(requests) = Len(responses)
              /\ limit = NoLimit => SearchEnd(Len(responses))
        /\ \A j \in 1..Len(responses) : \A k \in (j + 1)..Len(requests) :
              StartAt(j) + Len(IssuesOf(responses[j])) <= StartAt(k)

C26_Witness ==
    /\ style = "jql_list"
    /\ ~cloud
    /\ limit = NoLimit
    /\ args.start = 0
    /\ pc = "done"
    /\ Len(requests) = 3
    /\ StartAt(2) = 1
    /\ StartAt(3) = 2
    /\ results = <<"a", "b", "a">>

\* C27: without a limit, no request of jql_get_list_of_tickets follows a
\* response with an empty issues array, also when its total is larger than
\* the startAt of the request, and no two requests carry the same startAt.
C27_EmptyIssuesEndSearch ==
    (style = "jql_list" /\ ~cloud /\ limit = NoLimit) =>
        /\ \A k \in 1..Len(responses) :
              (responses[k] # EmptyDict /\ Len(IssuesOf(responses[k])) = 0) =>
                  Len(requests) = k
        /\ \A j \in 1..Len(requests) : \A k \in (j + 1)..Len(requests) :
              StartAt(j) # StartAt(k)

----------------------------------------------------------------------------
(* The advanced_mode flag *)

\* C28: when no call of issue_exists is under way, on whatever path the calls
\* made so far were left, advanced_mode has the value it had before them;
\* this includes two calls on one client that overlapped.
C28_AdvancedModeRestored ==
    (\A t \in DOMAIN ie_pc : ie_pc[t] \in {"idle", "ended"}) => advanced_mode = ie_mode0

----------------------------------------------------------------------------
(* The issue tree *)

\* the issue of the n-th nested call
ChainKey(n) == gt_stack[n].key

\* every entry of tree is a link with an inward issue, or a subtask, of its parent
EntriesAreLinks ==
    \A n \in 1..Len(gt_tree) :
        \E m \in 1..Len(ChildrenOf(gt_tree[n][1])) : ChildrenOf(gt_tree[n][1])[m] = gt_tree[n][2]

\* no call is nested deeper than the limit; the exception of the limit is
\* raised by the call that would be, the one of get_issue by a call within it
DepthLimited ==
    /\ \A n \in 1..Len(gt_stack) :
          /\ gt_stack[n].depth = gt_depth0 + n - 1
          /\ gt_stack[n].depth <= RecursionLimit
    /\ gt_pc = "raised" <=> gt_error # "none"
    /\ gt_error = "Recursion depth exceeded" => gt_depth0 + Len(gt_stack) > RecursionLimit
    /\ gt_error = "HTTPError" => gt_depth0 + Len(gt_stack) <= RecursionLimit
    /\ (gt_pc = "returned" /\ gt_tree # <<>>) => gt_depth0 < RecursionLimit

\* the calls of get_issue a chain of nested calls can make on this server
CallBound == 1 + Cardinality(IssueKeys) * (MaxLinks + MaxSubtasks)

\* C29 as stated: no chain of nested calls of get_issue_tree_recursive has
\* the same issue twice, also when an issue links to itself; no call is
\* nested deeper than 150, every entry of tree is an inward link or a
\* subtask of its parent, and the calls made are bounded by the graph.
C29_NoIssueTwiceInChain ==
    gt_pc # "unused" =>
        /\ \A m \in 1..Len(gt_stack) : \A n \in (m + 1)..Len(gt_stack) :
              ChainKey(m) # ChainKey(n)
        /\ DepthLimited
        /\ EntriesAreLinks
        /\ Len(gt_calls) <= CallBound

\* C29 amended: get_issue_tree_recursive ends on every issue graph, by
\* return, by the exception of a get_issue, or by Exception('Recursion depth
\* exceeded') when a call would be nested deeper than 150; a call for an issue is nested only when no entry
\* of tree has the issue as parent, so the issues of a chain of nested
\* calls differ from one another, except that a call may be for the issue
\* of its caller when that issue links to itself; every entry of tree is an
\* inward link or a subtask of its parent.
C29_TreeRecursionEnds ==
    /\ [](gt_pc # "unused" =>
            /\ \A m \in 1..Len(gt_stack) : \A n \in (m + 1)..Len(gt_stack) :
                  ChainKey(m) = ChainKey(n) =>
                      /\ n = m + 1
                      /\ \E c \in 1..Len(ChildrenOf(ChainKey(n))) :
                            ChildrenOf(ChainKey(n))[c] = ChainKey(n)
            /\ DepthLimited
            /\ EntriesAreLinks
            /\ Len(gt_calls) <= CallBound)
    /\ [][(Len(gt_stack) >= 1 /\ Len(gt_stack') > Len(gt_stack)) =>
            ~InTree(gt_tree, gt_stack'[Len(gt_stack')].key)]_vars
    /\ <>(gt_pc \in {"returned", "raised"})

C29_Witness ==
    /\ gt_pc = "raised"
    /\ gt_error = "Recursion depth exceeded"
    /\ gt_depth0 = RecursionLimit - 1
    /\ Len(gt_stack) = 2
    /\ ChainKey(1) = "A"
    /\ ChainKey(2) = "A"
    /\ gt_calls = <<"A", "A">>
    /\ gt_tree = << <<"A", "A">>, <<"A", "B">> >>

----------------------------------------------------------------------------
(* The bulk update *)

\* the PUTs that returned
PutsOk == {k \in 1..Len(bu_puts) : bu_puts[k].ok}

\* C30: bulk_update_issue_field issues its PUTs in the order of key_list,
\* none after the first PUT that raises; it never raises, logs the exception
\* and returns False then, and returns True exactly when the PUT of every key
\* returned; the updates the server applied for the earlier keys stay.
C30_BulkUpdate ==
    bu_pc # "unused" =>
        /\ bu_pc \in {"idle", "running", "returned"}
        /\ Len(bu_puts) <= Len(bu_keys)
        /\ \A k \in 1..Len(bu_puts) : bu_puts[k].url = IssueUrl(bu_keys[k])
        /\ \A k \in 1..(Len(bu_puts) - 1) : bu_puts[k].ok
        /\ IsPrefix(SubSeq(bu_keys, 1, Cardinality(PutsOk)), bu_applied)
        /\ bu_pc = "returned" =>
              /\ bu_result \in {"True", "False"}
              /\ bu_result = "True" <=>
                    (Len(bu_puts) = Len(bu_keys) /\ \A k \in 1..Len(bu_keys) : bu_puts[k].ok)
              /\ bu_result = "False" =>
                    /\ ~bu_puts[Len(bu_puts)].ok
                    /\ Len(bu_log) = 1
              /\ bu_result = "True" => bu_log = <<>>

C30_Witness ==
    /\ bu_keys = <<"A", "B", "A">>
    /\ bu_pc = "returned"
    /\ bu_result = "False"
    /\ Len(bu_puts) = 2
    /\ bu_puts[1].ok
    /\ bu_applied = <<"A">>
    /\ bu_log = <<"HTTPError">>

====
